---- MODULE Spec2Model ----
(***************************************************************************)
(* Model of ddogctl (package ddctl), one specification per component:      *)
(*   SpecTime      utils_time.parse_time                                   *)
(*   SpecBuckets   apm._extract_buckets                                    *)
(*   SpecCompute   service._safe_get_compute_values                        *)
(*   SpecCmd       the handlers that take --from/--to, to their exit       *)
(*   SpecQuery     the search queries (_build_query, _error_query, ...)    *)
(*   SpecDuration  service._convert_duration_to_ms                         *)
(*   SpecAttrs     apm._coerce_attrs_map and the merge of span attributes  *)
(*   SpecApi       api.ApiClient.request                                   *)
(*   SpecConfig    config.resolve_context                                  *)
(*   SpecDebug     the command tree and checks.debug_help                  *)
(*   SpecExcept    the except clauses of the handlers                      *)
(*   SpecTroubleshoot  service.service_troubleshoot, step by step          *)
(*   SpecClient    get_client_from_ctx and the requests of a handler       *)
(*   SpecLogs      logs.query_logs, to its table                           *)
(*   SpecWrap      services._wrap_definition                               *)
(*   SpecCounts    the count tables of apm errors and troubleshoot         *)
(*   SpecSpansTable  apm._render_spans_table                               *)
(* The specifications share the variables; each leaves those of the other  *)
(* components idle.                                                        *)
(*                                                                         *)
(* Strings are sequences of characters (one-character TLA+ strings); an    *)
(* absolute date/time and a UTC offset are each one lexeme of such a       *)
(* sequence.  Instants are seconds since the Unix epoch, in UTC.           *)
(* A Python call that may raise is an operator that yields an outcome      *)
(* [ok, val, exc]: ok = TRUE with the returned value, or ok = FALSE with   *)
(* the name of the exception.                                              *)
(***************************************************************************)
EXTENDS Integers, Sequences, FiniteSets, TLC

VARIABLES
    pc,         \* position of the run: "start" before the call, "done" after
    expr,       \* parse_time: the expression (a sequence of characters)
    reference,  \* parse_time: the reference instant `now`
    lib,        \* what dateutil yields today for a partial date/time string
    result,     \* parse_time: the outcome of the call
    resp,       \* the response envelope handed to an extractor
    parts,      \* the pieces the envelope of the aggregate extractor is built from
    extracted,  \* _extract_buckets: the outcome of the call
    computed,   \* _safe_get_compute_values: the outcome of the call
    argv,       \* the command line of the run: command, --from, --to, flags
    requests,   \* the HTTP requests the run has issued, in order
    outcome,    \* how the run ended: exit code, error, the resolved instants
    args,       \* the arguments of the call of a helper studied on its own
    returned,   \* what that call returned or raised
    locals      \* the local variables of that call while it runs

timeVars == <<expr, reference, lib, result>>

jsonVars == <<resp, parts, extracted, computed>>

cmdVars == <<argv, requests, outcome>>

callVars == <<args, returned, locals>>

vars == <<pc, timeVars, jsonVars, cmdVars, callVars>>

\* Value of a variable the running specification does not use.
Idle == "idle"

\* Longest run of digits of a generated relative expression.
MaxDigits == 2

None == [ok |-> FALSE, val |-> 0, exc |-> "None"]

Return(v) == [ok |-> TRUE, val |-> v, exc |-> ""]

Raise(e) == [ok |-> FALSE, val |-> 0, exc |-> e]

(***************************************************************************)
(* Characters and lexemes                                                  *)
(***************************************************************************)
Digits == {"0", "1", "5", "9"}

DigitValue(c) ==
    CASE c = "0" -> 0 [] c = "1" -> 1 [] c = "5" -> 5 [] c = "9" -> 9

\* Naive date/time lexemes and the instant each denotes when read as UTC.
NaiveInstant(c) ==
    CASE c = "2024-01-01T00:00:00" -> 1704067200
      [] c = "2024-01-01T12:30:00" -> 1704112200

NaiveLexemes == {"2024-01-01T00:00:00", "2024-01-01T12:30:00"}

\* Offset lexemes and the seconds each puts local time ahead of UTC.
OffsetSeconds(c) ==
    CASE c = "Z" -> 0
      [] c = "+00:00" -> 0
      [] c = "+02:00" -> 7200
      [] c = "-05:00" -> 0 - 18000

OffsetLexemes == {"Z", "+00:00", "+02:00", "-05:00"}

\* str.lower() on one character.
LowerChar(c) ==
    CASE c = "N" -> "n" [] c = "O" -> "o" [] c = "W" -> "w"
      [] c = "S" -> "s" [] c = "M" -> "m" [] c = "H" -> "h" [] c = "D" -> "d"
      [] c = "X" -> "x"
      [] OTHER -> c

\* str.lower()
Lower(s) == [i \in 1..Len(s) |-> LowerChar(s[i])]

\* str.startswith(p)
StartsWith(s, p) == Len(s) >= Len(p) /\ SubSeq(s, 1, Len(p)) = p

\* int() of a run of decimal digits
RECURSIVE DigitsToInt(_)
DigitsToInt(ds) ==
    IF ds = <<>> THEN 0
    ELSE 10 * DigitsToInt(SubSeq(ds, 1, Len(ds) - 1)) + DigitValue(ds[Len(ds)])

(***************************************************************************)
(* _REL_RE = ^-(\d+)([smhd])$ ; `$` also matches before one trailing       *)
(* newline.                                                                *)
(***************************************************************************)
RelBody(s) ==
    IF Len(s) >= 1 /\ s[Len(s)] = "\n" THEN SubSeq(s, 1, Len(s) - 1) ELSE s

RelMatches(s) ==
    LET b == RelBody(s) IN
    /\ Len(b) >= 3
    /\ b[1] = "-"
    /\ \A i \in 2..(Len(b) - 1) : b[i] \in Digits
    /\ b[Len(b)] \in {"s", "m", "h", "d"}

\* m.group(1) as an integer, and m.group(2)
RelAmount(s) == LET b == RelBody(s) IN DigitsToInt(SubSeq(b, 2, Len(b) - 1))

RelUnit(s) == LET b == RelBody(s) IN b[Len(b)]

\* Timedelta with the hours branch scaled as minutes.
Timedelta_HoursAsMinutes(unit, amount) ==
    CASE unit = "s" -> amount
      [] unit = "m" -> amount * 60
      [] unit = "h" -> amount * 60
      [] OTHER      -> amount * 86400

\* timedelta(seconds|minutes|hours|days = amount), in seconds
Timedelta(unit, amount) ==
    CASE unit = "s" -> amount
      [] unit = "m" -> amount * 60
      [] unit = "h" -> amount * 3600
      [] OTHER      -> amount * 86400

(***************************************************************************)
(* dateutil.parser.parse(expr).  A naive lexeme, alone or followed by an   *)
(* offset lexeme, is a full date/time.  A string with an alphabetic token  *)
(* dateutil does not know ("now", "x", "d", a unit with no number before   *)
(* it) or with no number at all raises ParserError.  Any other string is   *)
(* a partial date/time ("15", "-15", "15m"): dateutil completes it from    *)
(* today's date, or raises; `today` is that outcome.                       *)
(***************************************************************************)
IsAlpha(c) == LowerChar(c) \in {"n", "o", "w", "s", "m", "h", "d", "x"}

\* An alphabetic token dateutil accepts: a single h, m or s that follows a number.
UnitAfterNumber(s, i) ==
    /\ LowerChar(s[i]) \in {"h", "m", "s"}
    /\ i > 1 /\ s[i - 1] \in Digits
    /\ (i < Len(s) => ~IsAlpha(s[i + 1]))

\* "m" is also one of dateutil's skipped words when it stands alone.
SkippedWord(s, i) ==
    /\ LowerChar(s[i]) = "m"
    /\ (i > 1 => ~IsAlpha(s[i - 1]))
    /\ (i < Len(s) => ~IsAlpha(s[i + 1]))

DateutilParse(s, today) ==
    IF Len(s) = 1 /\ s[1] \in NaiveLexemes
        THEN [ok |-> TRUE, naive |-> NaiveInstant(s[1]), tz |-> FALSE, off |-> 0, exc |-> ""]
    ELSE IF Len(s) = 2 /\ s[1] \in NaiveLexemes /\ s[2] \in OffsetLexemes
        THEN [ok |-> TRUE, naive |-> NaiveInstant(s[1]), tz |-> TRUE,
              off |-> OffsetSeconds(s[2]), exc |-> ""]
    ELSE IF \/ \E i \in 1..Len(s) : s[i] \in NaiveLexemes \cup OffsetLexemes
            \/ \E i \in 1..Len(s) :
                  IsAlpha(s[i]) /\ ~UnitAfterNumber(s, i) /\ ~SkippedWord(s, i)
            \/ ~\E i \in 1..Len(s) : s[i] \in Digits
        THEN [ok |-> FALSE, naive |-> 0, tz |-> FALSE, off |-> 0, exc |-> "ParserError"]
    ELSE IF today.ok
        THEN [ok |-> TRUE, naive |-> today.val, tz |-> FALSE, off |-> 0, exc |-> ""]
    ELSE [ok |-> FALSE, naive |-> 0, tz |-> FALSE, off |-> 0, exc |-> "ParserError"]

(***************************************************************************)
(* parse_time(expr, now)                                                   *)
(***************************************************************************)
NowPrefix == <<"n", "o", "w", "-">>

\* RewriteNow without the "-" put back in front of the remainder.
RewriteNow_NoDash(lower) ==
    IF StartsWith(lower, NowPrefix)
        THEN SubSeq(lower, Len(NowPrefix) + 1, Len(lower))
        ELSE lower

\* lines 24-26: 'now-15m' -> '-15m'
RewriteNow(lower) ==
    IF StartsWith(lower, NowPrefix)
        THEN <<"-">> \o SubSeq(lower, Len(NowPrefix) + 1, Len(lower))
        ELSE lower

\* ParseAbsolute that stamps UTC on the parsed value whatever its offset.
ParseAbsolute_ReplaceTz(e, today) ==
    LET dt == DateutilParse(e, today) IN
    IF ~dt.ok THEN Raise(dt.exc) ELSE Return(dt.naive)

\* ParseAbsolute that swallows the parser's error and yields the epoch.
ParseAbsolute_Swallow(e, today) ==
    LET dt == DateutilParse(e, today) IN
    IF ~dt.ok THEN Return(0)
    ELSE IF ~dt.tz THEN Return(dt.naive)
    ELSE Return(dt.naive - dt.off)

\* lines 41-44: the absolute branch
ParseAbsolute(e, today) ==
    LET dt == DateutilParse(e, today) IN
    IF ~dt.ok THEN Raise(dt.exc)
    ELSE IF ~dt.tz THEN Return(dt.naive)
    ELSE Return(dt.naive - dt.off)

parse_time(e, now, today) ==
    LET lower0 == Lower(e) IN
    IF lower0 = <<"n", "o", "w">> THEN Return(now)
    ELSE
        LET lower == RewriteNow(lower0) IN
        IF RelMatches(lower)
            THEN Return(now - Timedelta(RelUnit(lower), RelAmount(lower)))
            ELSE ParseAbsolute(e, today)

(***************************************************************************)
(* Inputs of the resolver                                                  *)
(***************************************************************************)
RECURSIVE SeqsUpTo(_, _)
SeqsUpTo(S, n) ==
    IF n = 0 THEN {<<>>}
    ELSE LET shorter == SeqsUpTo(S, n - 1) IN
         shorter \cup {Append(s, c) : s \in {t \in shorter : Len(t) = n - 1}, c \in S}

Prefixes ==
    { <<>>, <<"-">>, <<"n", "o", "w">>, <<"N", "O", "W">>, <<"N", "o", "w">>,
      <<"n", "o", "w", "-">>, <<"N", "O", "W", "-">>, <<"n", "o", "w", "-", "-">> }

Suffixes ==
    { <<>>, <<"s">>, <<"m">>, <<"h">>, <<"d">>, <<"M">>, <<"H">>, <<"x">>,
      <<"m", "\n">>, <<"m", "x">> }

RelativeLike ==
    { p \o ds \o u : p \in Prefixes, ds \in SeqsUpTo(Digits, MaxDigits), u \in Suffixes }

AbsoluteLike ==
    { <<n>> : n \in NaiveLexemes }
        \cup { <<n, o>> : n \in NaiveLexemes, o \in OffsetLexemes }
        \cup { <<"n", "o", "w", "-", n>> : n \in NaiveLexemes }

TimeExprs == RelativeLike \cup AbsoluteLike

References == {1704067200, 1704070800, 1735689600}

\* What dateutil makes of a partial date/time string on the day of the run.
TodayOutcomes == {Raise("ParserError"), Return(1704067200), Return(1735603200)}

TimeInit ==
    /\ pc = "start"
    /\ expr \in TimeExprs
    /\ reference \in References
    /\ lib \in TodayOutcomes
    /\ result = None
    /\ resp = Idle /\ parts = Idle /\ extracted = Idle /\ computed = Idle
    /\ argv = Idle /\ requests = Idle /\ outcome = Idle
    /\ args = Idle /\ returned = Idle /\ locals = Idle

\* One call parse_time(expr, reference).
ParseTime ==
    /\ pc = "start"
    /\ result' = parse_time(expr, reference, lib)
    /\ pc' = "done"
    /\ UNCHANGED <<expr, reference, lib, jsonVars, cmdVars, callVars>>

TimeNext == ParseTime

SpecTime == TimeInit /\ [][TimeNext]_vars

(***************************************************************************)
(* Properties of the resolver                                              *)
(***************************************************************************)
\* The expression is -<N><unit>: a dash, one or more digits, one of s m h d.
IsRelativeExpr(e) ==
    /\ Len(e) >= 3
    /\ e[1] = "-"
    /\ \A i \in 2..(Len(e) - 1) : e[i] \in Digits
    /\ e[Len(e)] \in {"s", "m", "h", "d"}

\* duration(N, unit) in seconds
Duration(e) ==
    LET n == DigitsToInt(SubSeq(e, 2, Len(e) - 1))
        u == e[Len(e)]
    IN  CASE u = "s" -> n
          [] u = "m" -> 60 * n
          [] u = "h" -> 60 * 60 * n
          [] u = "d" -> 24 * 60 * 60 * n

\* C1: for every relative expression -<N><unit> (unit in s, m, h, d) and every
\* reference instant R, parse_time returns exactly R minus N seconds, minutes,
\* hours or days.
C1_RelativeOffset ==
    (pc = "done" /\ IsRelativeExpr(expr))
        => result = Return(reference - Duration(expr))

C1_Witness ==
    /\ pc = "done"
    /\ expr = <<"-", "1", "5", "h">>
    /\ result = Return(reference - 54000)

\* The word now in any letter case.
IsNowWord(e) ==
    /\ Len(e) = 3
    /\ e[1] \in {"n", "N"} /\ e[2] \in {"o", "O"} /\ e[3] \in {"w", "W"}

\* now-<N><unit>, and the -<N><unit> it stands for.
IsNowRelative(e) ==
    /\ Len(e) > 3
    /\ IsNowWord(SubSeq(e, 1, 3))
    /\ IsRelativeExpr(SubSeq(e, 4, Len(e)))

\* C2: parse_time returns R itself for 'now' in any letter case, and
\* 'now-<N><unit>' resolves to the same instant as '-<N><unit>', that is to R
\* minus the duration.
C2_NowAndNowMinus ==
    pc = "done" =>
        /\ IsNowWord(expr) => result = Return(reference)
        /\ IsNowRelative(expr) =>
              /\ result = parse_time(SubSeq(expr, 4, Len(expr)), reference, lib)
              /\ result = Return(reference - Duration(SubSeq(expr, 4, Len(expr))))

C2_Witness ==
    /\ pc = "done"
    /\ expr = <<"N", "O", "W", "-", "1", "h">>
    /\ result = Return(reference - 3600)

\* The expression is an absolute date/time, without or with an offset.
IsAbsoluteExpr(e) ==
    \/ Len(e) = 1 /\ e[1] \in NaiveLexemes
    \/ Len(e) = 2 /\ e[1] \in NaiveLexemes /\ e[2] \in OffsetLexemes

\* C3: for an absolute date/time string S the result is the same for every
\* reference instant: S read as UTC when it carries no offset, S converted to
\* UTC when it carries one.
C3_AbsoluteIndependentOfReference ==
    (pc = "done" /\ IsAbsoluteExpr(expr)) =>
        /\ \A r \in References : parse_time(expr, r, lib) = result
        /\ Len(expr) = 1 => result = Return(NaiveInstant(expr[1]))
        /\ Len(expr) = 2 =>
              result = Return(NaiveInstant(expr[1]) - OffsetSeconds(expr[2]))

C3_Witness ==
    /\ pc = "done"
    /\ expr = <<"2024-01-01T12:30:00", "+02:00">>
    /\ result = Return(1704105000)

\* The expression is none of the three forms: not now, no relative match after
\* lowering and the now- rewrite, and not parseable as a date/time.
IsInvalidExpr(e, today) ==
    /\ Lower(e) # <<"n", "o", "w">>
    /\ ~RelMatches(RewriteNow(Lower(e)))
    /\ ~DateutilParse(e, today).ok

\* C4: parse_time fails, and returns no instant, for every string that is not
\* now, does not match -<digits><unit> after the now- rewrite and cannot be
\* parsed as a date/time; '-15x', 'now-' and '-m' are such strings.
C4_InvalidExpressionFails ==
    pc = "done" =>
        /\ IsInvalidExpr(expr, lib) => result = Raise("ParserError")
        /\ expr \in { <<"-", "1", "5", "x">>, <<"n", "o", "w", "-">>, <<"-", "m">> }
              => ~result.ok

C4_Witness ==
    /\ pc = "done"
    /\ expr = <<"-", "1", "5", "x">>
    /\ lib.ok
    /\ result = Raise("ParserError")

(***************************************************************************)
(* JSON values as Python holds them.  A value is [t, n, s, v]: t names    *)
(* the Python type, n is the number, s the string, v the sequence of the   *)
(* list's elements or, for a dict, of its [k, x] key/value pairs in        *)
(* insertion order.                                                        *)
(***************************************************************************)
JNull == [t |-> "null", n |-> 0, s |-> "", v |-> <<>>]

JNum(i) == [t |-> "num", n |-> i, s |-> "", v |-> <<>>]

JStr(str) == [t |-> "str", n |-> 0, s |-> str, v |-> <<>>]

JList(xs) == [t |-> "list", n |-> 0, s |-> "", v |-> xs]

\* One key and its value.
KV(key, val) == [k |-> key, x |-> val]

JDict(kvs) == [t |-> "dict", n |-> 0, s |-> "", v |-> kvs]

\* A key the generated mapping leaves out.
Absent == [t |-> "absent", n |-> 0, s |-> "", v |-> <<>>]

\* The dict of the pairs whose value is not Absent.
RECURSIVE Present(_)
Present(kvs) ==
    IF kvs = <<>> THEN <<>>
    ELSE IF kvs[1].x = Absent THEN Present(Tail(kvs))
    ELSE <<kvs[1]>> \o Present(Tail(kvs))

MkDict(kvs) == JDict(Present(kvs))

\* isinstance(x, dict), isinstance(x, list)
IsDict(x) == x.t = "dict"

IsList(x) == x.t = "list"

\* bool(x)
Truthy(x) ==
    CASE x.t = "null" -> FALSE
      [] x.t = "num"  -> x.n # 0
      [] x.t = "str"  -> x.s # ""
      [] OTHER        -> x.v # <<>>

\* a or b
Or(a, b) == IF Truthy(a) THEN a ELSE b

\* key in d
HasKey(d, k) == \E i \in 1..Len(d.v) : d.v[i].k = k

\* d.get(k) on a dict
Get(d, k) ==
    IF HasKey(d, k)
        THEN d.v[CHOOSE i \in 1..Len(d.v) : d.v[i].k = k].x
        ELSE JNull

EmptyList == JList(<<>>)

EmptyDict == JDict(<<>>)

JReturn(x) == [ok |-> TRUE, val |-> x, exc |-> ""]

JRaise(e) == [ok |-> FALSE, val |-> JNull, exc |-> e]

(***************************************************************************)
(* apm._extract_buckets(resp)                                              *)
(***************************************************************************)
\* lines 68-70 and 75-77: attrs = holder.get("attributes") or {};
\* buckets = attrs.get("buckets") or []; a list or [].
BucketsUnder(holder) ==
    LET attrs == Or(Get(holder, "attributes"), EmptyDict) IN
    IF ~IsDict(attrs) THEN JRaise("AttributeError")
    ELSE LET buckets == Or(Get(attrs, "buckets"), EmptyList) IN
         JReturn(IF IsList(buckets) THEN buckets ELSE EmptyList)

_extract_buckets(r) ==
    IF ~IsDict(r) THEN JReturn(EmptyList)
    ELSE LET data == Get(r, "data") IN
         IF IsDict(data) THEN BucketsUnder(data)
         ELSE IF IsList(data) THEN JReturn(data)
         ELSE BucketsUnder(r)

(***************************************************************************)
(* Envelopes handed to _extract_buckets                                    *)
(***************************************************************************)
\* Longest generated list of items.
MaxItems == 2

Items == { JDict(<<KV("id", JNum(1))>>), JDict(<<KV("id", JNum(2))>>) }

ItemLists == { JList(xs) : xs \in SeqsUpTo(Items, MaxItems) }

BucketsVals ==
    {Absent, JNull, JStr("x"), JNum(1), EmptyDict} \cup ItemLists

AttrVals ==
    {Absent, JNull, EmptyDict, JStr(""), JStr("s"), EmptyList, JList(<<JStr("k:v")>>), JNum(1)}
        \cup { MkDict(<<KV("buckets", b)>>) : b \in BucketsVals \ {Absent} }

DataVals ==
    {Absent, JNull, JStr("s"), JNum(0), JNum(1), EmptyDict}
        \cup ItemLists
        \cup { MkDict(<<KV("attributes", a)>>) : a \in AttrVals \ {Absent} }

Envelopes ==
    {JNull, JStr("text"), EmptyList, JList(<<JDict(<<KV("id", JNum(1))>>)>>)}
        \cup { MkDict(<<KV("data", d), KV("attributes", a)>>) : d \in DataVals, a \in AttrVals }

BucketsInit ==
    /\ pc = "start"
    /\ resp \in Envelopes
    /\ extracted = Idle
    /\ parts = Idle /\ computed = Idle
    /\ expr = Idle /\ reference = Idle /\ lib = Idle /\ result = Idle
    /\ argv = Idle /\ requests = Idle /\ outcome = Idle
    /\ args = Idle /\ returned = Idle /\ locals = Idle

\* One call _extract_buckets(resp).
ExtractBuckets ==
    /\ pc = "start"
    /\ extracted' = _extract_buckets(resp)
    /\ pc' = "done"
    /\ UNCHANGED <<resp, parts, computed, timeVars, cmdVars, callVars>>

BucketsNext == ExtractBuckets

SpecBuckets == BucketsInit /\ [][BucketsNext]_vars

(***************************************************************************)
(* Properties of the normalizer                                            *)
(***************************************************************************)
\* The three locations of the item list, each a list or nothing.
DataLocation(r) ==
    IF IsDict(r) /\ IsList(Get(r, "data")) THEN {Get(r, "data")} ELSE {}

NestedBucketsLocation(r) ==
    IF /\ IsDict(r) /\ IsDict(Get(r, "data"))
       /\ IsDict(Get(Get(r, "data"), "attributes"))
       /\ IsList(Get(Get(Get(r, "data"), "attributes"), "buckets"))
        THEN {Get(Get(Get(r, "data"), "attributes"), "buckets")}
        ELSE {}

TopBucketsLocation(r) ==
    IF /\ IsDict(r) /\ IsDict(Get(r, "attributes"))
       /\ IsList(Get(Get(r, "attributes"), "buckets"))
        THEN {Get(Get(r, "attributes"), "buckets")}
        ELSE {}

\* The first of the three locations that holds a list.
FirstListLocation(r) ==
    IF DataLocation(r) # {} THEN DataLocation(r)
    ELSE IF NestedBucketsLocation(r) # {} THEN NestedBucketsLocation(r)
    ELSE TopBucketsLocation(r)

\* C6: _extract_buckets returns the first of data, data.attributes.buckets and
\* top-level attributes.buckets that holds a list; in particular the list at
\* top-level attributes.buckets whenever neither of the first two holds one.
\* (Stated for the calls that return; the calls that raise are C7's.)
C6_FirstListLocationWins ==
    (pc = "done" /\ extracted.ok /\ FirstListLocation(resp) # {})
        => extracted.val \in FirstListLocation(resp)

\* C7: _extract_buckets never raises, and returns the empty list for {}, for
\* {"data": {}}, for {"data": null}, for an envelope that is no mapping and for
\* data / attributes / buckets fields of unexpected types.
C7_NeverRaises ==
    pc = "done" =>
        /\ extracted.ok
        /\ FirstListLocation(resp) = {} => extracted.val = EmptyList

(***************************************************************************)
(* service._safe_get_compute_values(resp)                                  *)
(***************************************************************************)
\* f"c{idx}"
CKey(idx) == "c" \o ToString(idx)

\* The result of a rule that matched nothing: the code goes on to the next rule.
NoMatch == JReturn(Absent)

\* PosMap with enumerate() counting from 1.
RECURSIVE PosMap_FromOne(_, _)
PosMap_FromOne(computes, i) ==
    IF i > Len(computes.v) THEN <<>>
    ELSE (IF IsDict(computes.v[i]) /\ HasKey(computes.v[i], "value")
            THEN <<KV(CKey(i), Get(computes.v[i], "value"))>>
            ELSE <<>>)
         \o PosMap_FromOne(computes, i + 1)

\* lines 52-55 and 66-69: out[f"c{idx}"] = entry.get("value") for each entry
\* that is a dict with a "value" key, from list position i on.
RECURSIVE PosMap(_, _)
PosMap(computes, i) ==
    IF i > Len(computes.v) THEN <<>>
    ELSE (IF IsDict(computes.v[i]) /\ HasKey(computes.v[i], "value")
            THEN <<KV(CKey(i - 1), Get(computes.v[i], "value"))>>
            ELSE <<>>)
         \o PosMap(computes, i + 1)

\* lines 50-57 and 64-71: the computes sub-rule
ComputesRule(holder) ==
    LET computes == Get(holder, "computes") IN
    IF IsList(computes) /\ Truthy(computes) /\ PosMap(computes, 1) # <<>>
        THEN JReturn(JDict(PosMap(computes, 1)))
        ELSE NoMatch

\* line 46: ref = (buckets[0] or {}).get("attributes") or buckets[0] or {}
FirstRef(buckets) ==
    LET b0 == buckets.v[1]
        holder == Or(b0, EmptyDict)
    IN  IF ~IsDict(holder) THEN JRaise("AttributeError")
        ELSE JReturn(Or(Or(Get(holder, "attributes"), b0), EmptyDict))

\* lines 47-57: the two sub-rules on the first bucket
BucketRule(ref) ==
    IF ~IsDict(ref) THEN JRaise("AttributeError")
    ELSE LET compute == Or(Get(ref, "compute"), EmptyDict) IN
         IF /\ IsDict(compute)
            /\ (HasKey(compute, "c0") \/ HasKey(compute, "c1") \/ HasKey(compute, "c2"))
             THEN JReturn(compute)
             ELSE ComputesRule(ref)

\* line 59: the attributes the fallback reads
FallbackAttrs(r) ==
    IF IsDict(Get(r, "data"))
        THEN Get(Or(Get(r, "data"), EmptyDict), "attributes")
        ELSE Or(Get(r, "attributes"), EmptyDict)

\* lines 60-71: the two sub-rules on the fallback attributes
FallbackRule(attrs) ==
    IF ~IsDict(attrs) THEN NoMatch
    ELSE LET compute == Or(Get(attrs, "compute"), EmptyDict) IN
         IF IsDict(compute) /\ Truthy(compute)
             THEN JReturn(compute)
             ELSE ComputesRule(attrs)

\* lines 43-57: the rules on the extracted buckets
ViaBuckets(r) ==
    LET buckets == _extract_buckets(r) IN
    IF ~buckets.ok THEN buckets
    ELSE IF IsList(buckets.val) /\ Truthy(buckets.val)
        THEN LET ref == FirstRef(buckets.val) IN
             IF ~ref.ok THEN ref ELSE BucketRule(ref.val)
    ELSE NoMatch

_safe_get_compute_values(r) ==
    IF ~IsDict(r) THEN JReturn(EmptyDict)
    ELSE LET first == ViaBuckets(r) IN
         IF ~first.ok \/ first # NoMatch THEN first
         ELSE LET second == FallbackRule(FallbackAttrs(r)) IN
              IF second # NoMatch THEN second ELSE JReturn(EmptyDict)

(***************************************************************************)
(* Responses handed to _safe_get_compute_values.  A response is built from *)
(* its parts: where the bucket list lives (shape), how the first bucket    *)
(* carries its fields (wrap), the compute and computes fields of the first *)
(* bucket, the number of buckets after the first, and the compute and      *)
(* computes fields of the attributes the fallback reads.                   *)
(***************************************************************************)
\* Longest generated computes list.
MaxComputes == 2

\* Buckets after the first one.
MaxTrailing == 1

\* Highest index i of a generated compute key c<i>.
MaxKeyIndex == 3

ComputeVals ==
    { Absent, JNull, EmptyDict, JStr("x"),
      JDict(<<KV("c0", JNum(5))>>),
      JDict(<<KV("c0", JNum(5)), KV("c1", JNum(12))>>),
      JDict(<<KV("c2", JNum(3))>>),
      JDict(<<KV(CKey(MaxKeyIndex), JNum(7))>>),
      JDict(<<KV("total", JNum(1))>>) }

Entries ==
    { JDict(<<KV("value", JNum(5))>>), JDict(<<KV("value", JNum(12))>>),
      JDict(<<KV("x", JNum(1))>>) }

ComputesVals ==
    {Absent, JNull, JStr("x")} \cup { JList(xs) : xs \in SeqsUpTo(Entries, MaxComputes) }

FallbackVals ==
    { [compute |-> Absent, computes |-> Absent],
      [compute |-> JDict(<<KV("c0", JNum(9))>>), computes |-> Absent],
      [compute |-> JDict(<<KV("total", JNum(1))>>), computes |-> Absent],
      [compute |-> Absent, computes |-> JList(<<JDict(<<KV("value", JNum(9))>>)>>)],
      [compute |-> EmptyDict,
       computes |-> JList(<<JDict(<<KV("value", JNum(9))>>), JDict(<<KV("value", JNum(8))>>)>>)],
      [compute |-> JStr("x"), computes |-> JStr("y")] }

BucketShapes == {"data_list", "data_buckets", "top_buckets"}

NoBucketShapes == {"data_mapping", "top_attributes", "data_empty_list", "not_mapping"}

FieldWraps == {"self", "attributes", "empty_attributes"}

OddWraps == {"null", "string", "attributes_string"}

Parts ==
    [shape : BucketShapes, wrap : FieldWraps, compute : ComputeVals,
     computes : ComputesVals, trailing : 0..MaxTrailing, fallback : FallbackVals]
    \cup
    [shape : BucketShapes, wrap : OddWraps, compute : {Absent},
     computes : {Absent}, trailing : 0..MaxTrailing, fallback : FallbackVals]
    \cup
    [shape : NoBucketShapes, wrap : {"self"}, compute : {Absent},
     computes : {Absent}, trailing : {0}, fallback : FallbackVals]

MkBucket(p) ==
    CASE p.wrap = "self" ->
            MkDict(<<KV("compute", p.compute), KV("computes", p.computes)>>)
      [] p.wrap = "attributes" ->
            JDict(<<KV("attributes",
                       MkDict(<<KV("compute", p.compute), KV("computes", p.computes)>>))>>)
      [] p.wrap = "empty_attributes" ->
            MkDict(<<KV("attributes", EmptyDict),
                     KV("compute", p.compute), KV("computes", p.computes)>>)
      [] p.wrap = "null" -> JNull
      [] p.wrap = "string" -> JStr("bucket")
      [] p.wrap = "attributes_string" -> JDict(<<KV("attributes", JStr("s"))>>)

TrailingBucket == JDict(<<KV("compute", JDict(<<KV("c0", JNum(99))>>))>>)

MkBuckets(p) ==
    JList(<<MkBucket(p)>> \o [i \in 1..p.trailing |-> TrailingBucket])

\* The attributes mapping the fallback reads, holding `buckets` too when given.
MkAttrs(p, buckets) ==
    MkDict(<<KV("buckets", buckets),
             KV("compute", p.fallback.compute), KV("computes", p.fallback.computes)>>)

MkResp(p) ==
    CASE p.shape = "data_list" ->
            JDict(<<KV("data", MkBuckets(p)), KV("attributes", MkAttrs(p, Absent))>>)
      [] p.shape = "data_buckets" ->
            JDict(<<KV("data", JDict(<<KV("attributes", MkAttrs(p, MkBuckets(p)))>>))>>)
      [] p.shape = "top_buckets" ->
            JDict(<<KV("attributes", MkAttrs(p, MkBuckets(p)))>>)
      [] p.shape = "data_mapping" ->
            JDict(<<KV("data", JDict(<<KV("attributes", MkAttrs(p, Absent))>>))>>)
      [] p.shape = "top_attributes" ->
            JDict(<<KV("attributes", MkAttrs(p, Absent))>>)
      [] p.shape = "data_empty_list" ->
            JDict(<<KV("data", EmptyList), KV("attributes", MkAttrs(p, Absent))>>)
      [] p.shape = "not_mapping" -> JStr("text")

ComputeInit ==
    /\ pc = "start"
    /\ parts \in Parts
    /\ resp = MkResp(parts)
    /\ computed = Idle
    /\ extracted = Idle
    /\ expr = Idle /\ reference = Idle /\ lib = Idle /\ result = Idle
    /\ argv = Idle /\ requests = Idle /\ outcome = Idle
    /\ args = Idle /\ returned = Idle /\ locals = Idle

\* One call _safe_get_compute_values(resp).
SafeGetComputeValues ==
    /\ pc = "start"
    /\ computed' = _safe_get_compute_values(resp)
    /\ pc' = "done"
    /\ UNCHANGED <<resp, parts, extracted, timeVars, cmdVars, callVars>>

ComputeNext == SafeGetComputeValues

SpecCompute == ComputeInit /\ [][ComputeNext]_vars

(***************************************************************************)
(* Properties of the aggregate extractor                                   *)
(***************************************************************************)
\* A key of the form c<digits>.
IsCKey(key) == \E i \in 0..MaxKeyIndex : key = CKey(i)

\* A compute mapping that contains a key of the form c<digits>.
UsableCompute(c) == IsDict(c) /\ \E i \in 1..Len(c.v) : IsCKey(c.v[i].k)

\* A non-empty computes list whose entries all carry a value.
ValueList(cs) ==
    /\ IsList(cs) /\ cs.v # <<>>
    /\ \A i \in 1..Len(cs.v) : IsDict(cs.v[i]) /\ HasKey(cs.v[i], "value")

\* The mapping c<i> -> v<i> of a computes list, i counted from 0.
Positional(cs) ==
    JDict([i \in 1..Len(cs.v) |-> KV(CKey(i - 1), Get(cs.v[i], "value"))])

\* The first bucket keeps its fields under attributes, or in itself when it
\* has no attributes key.
BucketHoldsFields(p) == p.shape \in BucketShapes /\ p.wrap \in {"self", "attributes"}

\* C8: when the first bucket's attributes (or the bucket itself without an
\* attributes key) holds a compute mapping with any key c<digits>, that
\* compute mapping is returned unchanged.
C8_ComputeWithAnyCKeyReturned ==
    (pc = "done" /\ BucketHoldsFields(parts) /\ UsableCompute(parts.compute))
        => computed = JReturn(parts.compute)

\* C9: a first bucket with no usable compute mapping and a computes list
\* [{value: v0}, {value: v1}, ...] gives c<i> -> v<i> for each position i, the
\* same result as the same bucket given as compute {c0: v0, c1: v1, ...}.
C9_ShapesEquivalent ==
    (/\ pc = "done"
     /\ parts.shape \in BucketShapes /\ parts.wrap \in FieldWraps
     /\ ~UsableCompute(parts.compute)
     /\ ValueList(parts.computes))
        => /\ computed = JReturn(Positional(parts.computes))
           /\ computed = _safe_get_compute_values(
                  MkResp([parts EXCEPT !.compute = Positional(parts.computes),
                                       !.computes = Absent]))

C9_Witness ==
    /\ pc = "done"
    /\ parts.shape = "data_buckets" /\ parts.wrap = "attributes"
    /\ parts.compute = Absent
    /\ parts.computes = JList(<<JDict(<<KV("value", JNum(5))>>), JDict(<<KV("value", JNum(12))>>)>>)
    /\ computed = JReturn(JDict(<<KV("c0", JNum(5)), KV("c1", JNum(12))>>))

\* What the two sub-rules give on a holder of compute / computes fields: the
\* compute mapping if it has a key c<digits>, else the positional mapping of a
\* computes list, else nothing.
SubRules(c, cs) ==
    IF UsableCompute(c) THEN {c}
    ELSE IF ValueList(cs) THEN {Positional(cs)}
    ELSE {}

\* C10: response.data.attributes / response.attributes is consulted only when
\* no bucket was found, and there a compute mapping is returned only if it has
\* a key c<digits>, otherwise a computes list is mapped positionally.
C10_FallbackOnlyWithoutBucket ==
    pc = "done" =>
        /\ (BucketHoldsFields(parts) /\ SubRules(parts.compute, parts.computes) = {})
              => computed = JReturn(EmptyDict)
        /\ (parts.shape \in {"data_mapping", "top_attributes", "data_empty_list"}
            /\ ~IsList(parts.fallback.computes))
              => computed = JReturn(
                     IF UsableCompute(parts.fallback.compute)
                         THEN parts.fallback.compute ELSE EmptyDict)
        /\ (parts.shape \in {"data_mapping", "top_attributes", "data_empty_list"}
            /\ ValueList(parts.fallback.computes))
              => computed.val \in SubRules(parts.fallback.compute, parts.fallback.computes)

\* C11: _safe_get_compute_values never raises, whatever the response: a
\* response that is no mapping, a data list whose first element is no mapping
\* and compute / computes / attributes of unexpected types all give a result,
\* the empty mapping when no rule matches.
C11_ComputeNeverRaises ==
    pc = "done" =>
        /\ computed.ok
        /\ parts.shape = "not_mapping" => computed = JReturn(EmptyDict)
        /\ (parts.shape \in BucketShapes /\ parts.wrap \in OddWraps
            /\ parts.fallback.compute = Absent /\ parts.fallback.computes = Absent)
              => computed = JReturn(EmptyDict)

(***************************************************************************)
(* The commands that take --from and --to.  One invocation runs one        *)
(* handler from its first line to the exit of the process.  The            *)
(* environment of a run is: whether the credentials resolve (config), the  *)
(* two readings of the clock taken by the two parse_time calls (now1,      *)
(* now2), dateutil's reading of a partial date (today), and the number of  *)
(* the first HTTP call answered with a status >= 400 (failAt, 0 for none). *)
(***************************************************************************)
Request(method, path, start, end) ==
    [method |-> method, path |-> path, from |-> start, to |-> end]

Outcome(code, err, f, t) == [exit |-> code, error |-> err, dtFrom |-> f, dtTo |-> t]

\* The calls 1..n issued one after another until the first that fails.
IssuedCalls(n, env) == IF env.failAt \in 1..n THEN env.failAt ELSE n

\* The end of a run that got as far as its HTTP calls: ApiError is caught by
\* the handler's `except Exception` and becomes typer.Exit(code=1).
AfterCalls(n, env, f, t) ==
    IF env.failAt \in 1..n THEN Outcome(1, "ApiError", f, t)
    ELSE Outcome(0, "", f, t)

\* A handler that resolves --from and --to, refuses a range whose end precedes
\* its start and issues one request (logs.py 51-66; apm.py 250-263, 295-315,
\* 355-384, 426-455).
RangeCheckedCall(a, env, method, path) ==
    IF ~env.config THEN [requests |-> <<>>, outcome |-> Outcome(1, "RuntimeError", None, None)]
    ELSE LET dt_from == parse_time(a.from, env.now1, env.today) IN
         IF ~dt_from.ok
             THEN [requests |-> <<>>, outcome |-> Outcome(1, dt_from.exc, dt_from, None)]
         ELSE LET dt_to == parse_time(a.to, env.now2, env.today) IN
              IF ~dt_to.ok
                  THEN [requests |-> <<>>, outcome |-> Outcome(1, dt_to.exc, dt_from, dt_to)]
              ELSE IF dt_to.val < dt_from.val
                  THEN [requests |-> <<>>,
                        outcome |-> Outcome(1, "BadParameter", dt_from, dt_to)]
              ELSE [requests |-> <<Request(method, path, dt_from.val, dt_to.val)>>,
                    outcome |-> AfterCalls(1, env, dt_from, dt_to)]

query_logs(a, env) == RangeCheckedCall(a, env, "POST", "/api/v2/logs/events/search")

spans_list(a, env) == RangeCheckedCall(a, env, "GET", "/api/v2/spans/events")

spans_search(a, env) == RangeCheckedCall(a, env, "POST", "/api/v2/spans/events/search")

errors_top_resources(a, env) ==
    RangeCheckedCall(a, env, "POST", "/api/v2/spans/analytics/aggregate")

errors_rate(a, env) == RangeCheckedCall(a, env, "POST", "/api/v2/spans/analytics/aggregate")

\* A handler that resolves --from and --to and issues n requests with them
\* (metrics.py 84-91, 219-245).
UncheckedCalls(a, env, n) ==
    IF ~env.config THEN [requests |-> <<>>, outcome |-> Outcome(1, "RuntimeError", None, None)]
    ELSE LET start == parse_time(a.from, env.now1, env.today) IN
         IF ~start.ok
             THEN [requests |-> <<>>, outcome |-> Outcome(1, start.exc, start, None)]
         ELSE LET end == parse_time(a.to, env.now2, env.today) IN
              IF ~end.ok
                  THEN [requests |-> <<>>, outcome |-> Outcome(1, end.exc, start, end)]
              ELSE [requests |->
                        [i \in 1..IssuedCalls(n, env) |->
                            Request("GET", "/api/v1/query", start.val, end.val)],
                    outcome |-> AfterCalls(n, env, start, end)]

metrics_query(a, env) == UncheckedCalls(a, env, 1)

\* metrics.py 211-212: neither --kube-service nor --kube-deployment is a usage
\* error raised before the try block; click ends the process with code 2.
k8s_resources(a, env) ==
    IF ~a.kube THEN [requests |-> <<>>, outcome |-> Outcome(2, "BadParameter", None, None)]
    ELSE UncheckedCalls(a, env, 6)

(***************************************************************************)
(* Command lines and environments                                          *)
(***************************************************************************)
CmdTimeExprs ==
    { <<"n", "o", "w">>, <<"-", "1", "h">>, <<"n", "o", "w", "-", "1", "h">>,
      <<"-", "1", "5", "m">>, <<"-", "0", "s">>, <<"-", "1", "5", "x">>,
      <<"2024-01-01T00:00:00">>, <<"2024-01-01T12:30:00", "+02:00">> }

RangeCommands ==
    { "logs query", "apm spans list", "apm spans search", "apm errors top-resources",
      "apm errors rate", "metrics query", "metrics k8s-resources" }

Argvs ==
    [cmd : RangeCommands \ {"metrics k8s-resources"}, from : CmdTimeExprs,
     to : CmdTimeExprs, kube : {FALSE}]
    \cup
    [cmd : {"metrics k8s-resources"}, from : CmdTimeExprs, to : CmdTimeExprs,
     kube : BOOLEAN]

\* Readings of the clock, 2024-01-01T12:00:00Z and later.
ClockReadings == {1704110400, 1704110401}

Envs ==
    { e \in [config : BOOLEAN, now1 : ClockReadings, now2 : ClockReadings,
             today : {Raise("ParserError")}, failAt : 0..6] : e.now1 <= e.now2 }

CmdInit ==
    /\ pc = "start"
    /\ argv \in Argvs
    /\ requests = <<>>
    /\ outcome = Idle
    /\ expr = Idle /\ reference = Idle /\ lib = Idle /\ result = Idle
    /\ resp = Idle /\ parts = Idle /\ extracted = Idle /\ computed = Idle
    /\ args = Idle /\ returned = Idle /\ locals = Idle

\* The process ends with what the handler did.
Exit(run) ==
    /\ requests' = run.requests
    /\ outcome' = run.outcome
    /\ pc' = "exited"
    /\ UNCHANGED <<argv, timeVars, jsonVars, callVars>>

QueryLogs ==
    /\ pc = "start"
    /\ argv.cmd = "logs query"
    /\ \E env \in Envs : Exit(query_logs(argv, env))

SpansList ==
    /\ pc = "start"
    /\ argv.cmd = "apm spans list"
    /\ \E env \in Envs : Exit(spans_list(argv, env))

SpansSearch ==
    /\ pc = "start"
    /\ argv.cmd = "apm spans search"
    /\ \E env \in Envs : Exit(spans_search(argv, env))

ErrorsTopResources ==
    /\ pc = "start"
    /\ argv.cmd = "apm errors top-resources"
    /\ \E env \in Envs : Exit(errors_top_resources(argv, env))

ErrorsRate ==
    /\ pc = "start"
    /\ argv.cmd = "apm errors rate"
    /\ \E env \in Envs : Exit(errors_rate(argv, env))

MetricsQuery ==
    /\ pc = "start"
    /\ argv.cmd = "metrics query"
    /\ \E env \in Envs : Exit(metrics_query(argv, env))

K8sResources ==
    /\ pc = "start"
    /\ argv.cmd = "metrics k8s-resources"
    /\ \E env \in Envs : Exit(k8s_resources(argv, env))

CmdNext ==
    \/ QueryLogs
    \/ SpansList
    \/ SpansSearch
    \/ ErrorsTopResources
    \/ ErrorsRate
    \/ MetricsQuery
    \/ K8sResources

SpecCmd == CmdInit /\ [][CmdNext]_vars

(***************************************************************************)
(* Properties of the range check                                           *)
(***************************************************************************)
\* Both instants were resolved and --to precedes --from.
RangeInverted ==
    /\ outcome.dtFrom.ok /\ outcome.dtTo.ok
    /\ outcome.dtTo.val < outcome.dtFrom.val

\* C5: every command that takes --from and --to signals an invalid-range error
\* and issues no HTTP request whenever the resolved --to precedes the resolved
\* --from.
C5_InvertedRangeRefused ==
    (pc = "exited" /\ RangeInverted)
        => requests = <<>> /\ outcome.error = "BadParameter"

\* C20: every command ends with exit code 1 on any error raised while it runs
\* (unparseable time, invalid range, invalid option combination such as
\* k8s-resources without --kube-service and --kube-deployment, configuration
\* error, ApiError), and with exit code 0 only when no error occurred.
C20_ErrorsExitOne ==
    pc = "exited" =>
        /\ outcome.error # "" => outcome.exit = 1
        /\ outcome.exit = 0 => outcome.error = ""

(***************************************************************************)
(* The search queries (apm._build_query, apm._error_query,                 *)
(* logs._build_query, service._cluster_extra and the handlers that call    *)
(* them).                                                                  *)
(*                                                                         *)
(* A query string is a sequence of lexemes: the fixed prefix of a term     *)
(* ("service:", "env:", "cluster:"), a name, a blank, a word of the free   *)
(* text.  An Optional[str] argument is a record: none for Python's None,   *)
(* otherwise the string s.                                                 *)
(***************************************************************************)
NoneStr == [none |-> TRUE, s |-> <<>>]

Str(s) == [none |-> FALSE, s |-> s]

\* Python's truth value of an Optional[str]: None and "" are false.
StrTruthy(o) == ~o.none /\ o.s # <<>>

Blank == " "

Star == <<"*">>

\* sep.join(terms)
RECURSIVE Join(_, _)
Join(sep, terms) ==
    IF terms = <<>> THEN <<>>
    ELSE IF Len(terms) = 1 THEN Head(terms)
    ELSE Head(terms) \o sep \o Join(sep, Tail(terms))

\* The list a handler appends a term to when its condition holds.
TermIf(cond, term) == IF cond THEN <<term>> ELSE <<>>

\* A variant that appends the free text before the environment.
_build_query_ExtraBeforeEnv(service, extra, env) ==
    LET terms == TermIf(StrTruthy(service), <<"service:">> \o service.s)
                 \o TermIf(StrTruthy(extra), extra.s)
                 \o TermIf(StrTruthy(env), <<"env:">> \o env.s)
    IN  IF terms # <<>> THEN Join(<<Blank>>, terms) ELSE Star

\* apm._build_query(service, extra, env)
_build_query(service, extra, env) ==
    LET terms == TermIf(StrTruthy(service), <<"service:">> \o service.s)
                 \o TermIf(StrTruthy(env), <<"env:">> \o env.s)
                 \o TermIf(StrTruthy(extra), extra.s)
    IN  IF terms # <<>> THEN Join(<<Blank>>, terms) ELSE Star

error_filter == <<"(status:error OR @error.message:* OR @error.type:*)">>

\* A variant that appends the clause to every base query.
_error_query_AlwaysAppends(service, extra, env) ==
    _build_query(service, extra, env) \o <<Blank>> \o error_filter

\* apm._error_query(service, extra, env)
_error_query(service, extra, env) ==
    LET base == _build_query(service, extra, env)
    IN  IF base = Star THEN error_filter
        ELSE base \o <<Blank>> \o error_filter

\* logs._build_query(service, extra)
logs_build_query(service, extra) ==
    LET query_parts == TermIf(StrTruthy(service), <<"service:">> \o service.s)
                       \o TermIf(StrTruthy(extra), extra.s)
    IN  IF query_parts = <<>> THEN Star ELSE Join(<<Blank>>, query_parts)

\* service._cluster_extra(cluster)
_cluster_extra(cluster) ==
    IF ~StrTruthy(cluster) THEN NoneStr ELSE Str(<<"cluster:">> \o cluster.s)

\* A variant of the logs search of the troubleshoot view that appends the
\* cluster before the environment.
q_parts_ClusterBeforeEnv(service, env, cluster) ==
    << <<"service:">> \o service.s, <<"status:error">> >>
    \o TermIf(StrTruthy(cluster), <<"cluster:">> \o cluster.s)
    \o TermIf(StrTruthy(env), <<"env:">> \o env.s)

\* service_troubleshoot: the terms of its logs search
q_parts(service, env, cluster) ==
    << <<"service:">> \o service.s, <<"status:error">> >>
    \o TermIf(StrTruthy(env), <<"env:">> \o env.s)
    \o TermIf(StrTruthy(cluster), <<"cluster:">> \o cluster.s)

\* service_troubleshoot: the queries of its four requests, in order.  Its
\* --service is required, so it is a string, possibly empty.
troubleshoot_queries(service, env, cluster) ==
    LET extra == _cluster_extra(cluster)
    IN  << _build_query(service, extra, env),
           _error_query(service, extra, env),
           _error_query(service, extra, env),
           Join(<<Blank>>, q_parts(service, env, cluster)) >>

\* spans_list: filter[query]
spans_list_query(service, query, env) == _build_query(service, query, env)

\* spans_search: filter.query
spans_search_query(query, env) ==
    IF StrTruthy(env) THEN _build_query(NoneStr, query, env)
    ELSE IF StrTruthy(query) THEN query.s ELSE Star

\* errors_top_resources and errors_rate: filter.query
errors_query(service, env) == _error_query(service, NoneStr, env)

\* query_logs: filter.query
query_logs_query(service, query) == logs_build_query(service, query)

Names(S) == {NoneStr, Str(<<>>)} \cup {Str(<<n>>) : n \in S}

Services == Names({"checkout", "web"})

Environments == Names({"prd", "dev"})

Clusters == Names({"east", "west"})

FreeTexts == {NoneStr, Str(<<>>), Str(Star), Str(<<"@http.status_code:500">>),
              Str(<<"timeout", Blank, "-status:ok">>)}

QueryArgs == [service : Services, env : Environments, extra : FreeTexts, cluster : Clusters]

QueryInit ==
    /\ pc = "start"
    /\ args \in QueryArgs
    /\ returned = None
    /\ locals = Idle
    /\ expr = Idle /\ reference = Idle /\ lib = Idle /\ result = Idle
    /\ resp = Idle /\ parts = Idle /\ extracted = Idle /\ computed = Idle
    /\ argv = Idle /\ requests = Idle /\ outcome = Idle

\* The call or the handler fn has built its queries.
Built(fn, queries) ==
    /\ pc = "start"
    /\ returned' = [fn |-> fn, queries |-> queries]
    /\ pc' = "done"
    /\ UNCHANGED <<args, locals, timeVars, jsonVars, cmdVars>>

BuildQuery ==
    Built("_build_query", << _build_query(args.service, args.extra, args.env) >>)

ErrorQuery ==
    Built("_error_query", << _error_query(args.service, args.extra, args.env) >>)

LogsBuildQuery ==
    Built("logs._build_query", << logs_build_query(args.service, args.extra) >>)

QueryLogsQuery ==
    Built("query_logs", << query_logs_query(args.service, args.extra) >>)

SpansListQuery ==
    Built("spans_list", << spans_list_query(args.service, args.extra, args.env) >>)

SpansSearchQuery ==
    Built("spans_search", << spans_search_query(args.extra, args.env) >>)

ErrorsQuery ==
    Built("errors", << errors_query(args.service, args.env) >>)

TroubleshootQueries ==
    /\ ~args.service.none
    /\ Built("service_troubleshoot",
             troubleshoot_queries(args.service, args.env, args.cluster))

QueryNext ==
    \/ BuildQuery
    \/ ErrorQuery
    \/ LogsBuildQuery
    \/ QueryLogsQuery
    \/ SpansListQuery
    \/ SpansSearchQuery
    \/ ErrorsQuery
    \/ TroubleshootQueries

SpecQuery == QueryInit /\ [][QueryNext]_vars

(***************************************************************************)
(* Properties of the search queries                                        *)
(***************************************************************************)
\* The component was supplied: neither None nor the empty string.
Supplied(o) == ~o.none /\ Len(o.s) > 0

\* Two texts with one blank between them; an empty text adds nothing.
Glue(a, b) ==
    IF a = <<>> THEN b ELSE IF b = <<>> THEN a ELSE a \o <<" ">> \o b

PrefixedTerm(prefix, o) == IF Supplied(o) THEN <<prefix>> \o o.s ELSE <<>>

Verbatim(o) == IF Supplied(o) THEN o.s ELSE <<>>

\* C12: for every combination of optional service, environment and free text,
\* _build_query returns the supplied components as space-joined terms in the
\* order service:<service>, env:<environment>, free text verbatim, omitting
\* each absent (None or empty) component, and returns exactly "*" when none is
\* supplied; service=checkout, env=prd and no free text give
\* "service:checkout env:prd".
C12_BuildQueryTerms ==
    (pc = "done" /\ returned.fn = "_build_query") =>
        LET q == returned.queries[1]
            anySupplied == \/ Supplied(args.service)
                           \/ Supplied(args.env)
                           \/ Supplied(args.extra)
        IN  /\ ~anySupplied => q = <<"*">>
            /\ anySupplied =>
                   q = Glue(Glue(PrefixedTerm("service:", args.service),
                                 PrefixedTerm("env:", args.env)),
                            Verbatim(args.extra))
            /\ ( /\ args.service = Str(<<"checkout">>)
                 /\ args.env = Str(<<"prd">>)
                 /\ args.extra = NoneStr )
                   => q = <<"service:", "checkout", " ", "env:", "prd">>

C12_Witness ==
    /\ pc = "done" /\ returned.fn = "_build_query"
    /\ args.service = Str(<<"checkout">>)
    /\ args.env = Str(<<"prd">>)
    /\ args.extra = Str(<<"timeout", " ", "-status:ok">>)
    /\ returned.queries[1] = <<"service:", "checkout", " ", "env:", "prd", " ",
                               "timeout", " ", "-status:ok">>

\* C13: _error_query returns the base query of _build_query followed by a
\* blank and the fixed clause (status:error OR @error.message:* OR
\* @error.type:*), and returns the fixed clause alone exactly when the base
\* query is "*".
C13_ErrorQueryClause ==
    (pc = "done" /\ returned.fn = "_error_query") =>
        LET q == returned.queries[1]
            base == _build_query(args.service, args.extra, args.env)
            clause == <<"(status:error OR @error.message:* OR @error.type:*)">>
        IN  /\ base # <<"*">> => q = base \o <<" ">> \o clause
            /\ (q = clause) <=> (base = <<"*">>)

C13_Witness ==
    /\ pc = "done" /\ returned.fn = "_error_query"
    /\ ~Supplied(args.service) /\ ~Supplied(args.env) /\ ~Supplied(args.extra)
    /\ returned.queries[1] = error_filter

\* The position of the first occurrence of a lexeme in a query, 0 when absent.
IndexOf(q, lexeme) ==
    IF \E i \in 1..Len(q) : q[i] = lexeme
    THEN CHOOSE i \in 1..Len(q) :
             q[i] = lexeme /\ \A j \in 1..(i - 1) : q[j] # lexeme
    ELSE 0

\* Where both lexemes occur, the first occurs before the second.
InOrder(q, first, second) ==
    (IndexOf(q, first) > 0 /\ IndexOf(q, second) > 0)
        => IndexOf(q, first) < IndexOf(q, second)

\* The terms of a query stand in the order service, environment, cluster,
\* free text (the free text being the one the command was given).
TermOrder(q, freeText) ==
    LET ranked == <<"service:", "env:", "cluster:">>
                  \o (IF Supplied(freeText) THEN <<Head(freeText.s)>> ELSE <<>>)
    IN  \A i, j \in 1..Len(ranked) : i < j => InOrder(q, ranked[i], ranked[j])

\* C14: every search query a command builds places its terms in the fixed
\* order service, environment, cluster, free text; this covers the aggregate
\* queries of the troubleshoot view (cluster passed through _cluster_extra) and
\* its logs-search query built from service, status:error, env and cluster.
C14_TermOrder ==
    pc = "done" =>
        \A i \in 1..Len(returned.queries) :
            TermOrder(returned.queries[i], args.extra)

C14_Witness ==
    /\ pc = "done" /\ returned.fn = "service_troubleshoot"
    /\ args.service = Str(<<"web">>)
    /\ args.env = Str(<<"dev">>)
    /\ args.cluster = Str(<<"east">>)
    /\ returned.queries[1] = <<"service:", "web", " ", "env:", "dev", " ",
                               "cluster:", "east">>
    /\ returned.queries[4] = <<"service:", "web", " ", "status:error", " ",
                               "env:", "dev", " ", "cluster:", "east">>

(***************************************************************************)
(* The duration heuristic (service._convert_duration_to_ms).               *)
(*                                                                         *)
(* A number is a decimal [m, e] standing for m * 10^e, kept with the       *)
(* smallest mantissa (no trailing zero), so that equal numbers are equal   *)
(* records and 15,000,000,000 is [15, 9].  An argument float() refuses is  *)
(* NotANumber.                                                             *)
(***************************************************************************)
Dec(m, e) == [num |-> TRUE, m |-> m, e |-> e]

NotANumber == [num |-> FALSE, m |-> 0, e |-> 0]

RECURSIVE Norm(_)
Norm(d) ==
    IF d.m = 0 THEN Dec(0, 0)
    ELSE IF d.m % 10 = 0 THEN Norm(Dec(d.m \div 10, d.e + 1))
    ELSE d

RECURSIVE Pow10(_)
Pow10(k) == IF k = 0 THEN 1 ELSE 10 * Pow10(k - 1)

\* d > t, for an integer t > 0
Gt(d, t) ==
    IF d.m <= 0 THEN FALSE
    ELSE IF d.e >= 0
         THEN IF d.e > 9 THEN TRUE ELSE d.m > t \div Pow10(d.e)
         ELSE IF 0 - d.e > 9 THEN FALSE
              ELSE LET p == Pow10(0 - d.e)
                   IN  \/ d.m \div p > t
                       \/ d.m \div p = t /\ d.m % p > 0

\* d <= t
Le(d, t) == ~Gt(d, t)

\* d < t
Lt(d, t) == Le(d, t) /\ Norm(d) # Norm(Dec(t, 0))

\* d / n and d * n, for n a power of ten
RECURSIVE DivBy(_, _)
DivBy(d, n) == IF n = 1 THEN Norm(d) ELSE DivBy(Dec(d.m, d.e - 1), n \div 10)

RECURSIVE MulBy(_, _)
MulBy(d, n) == IF n = 1 THEN Norm(d) ELSE MulBy(Dec(d.m, d.e + 1), n \div 10)

NsAbove == 10000000

NsPerMs == 1000000

UsAbove == 10000

UsPerMs == 1000

SecondsUpTo == 10

MsPerSecond == 1000

\* A variant that takes a value for seconds only below 10, as the docstring of
\* the function has it.
_convert_duration_to_ms_Below10(value) ==
    IF ~value.num THEN Dec(0, 0)
    ELSE IF Gt(value, NsAbove) THEN DivBy(value, NsPerMs)
    ELSE IF Gt(value, UsAbove) THEN DivBy(value, UsPerMs)
    ELSE IF Lt(value, SecondsUpTo) THEN MulBy(value, MsPerSecond)
    ELSE Norm(value)

\* _convert_duration_to_ms(value)
_convert_duration_to_ms(value) ==
    IF ~value.num THEN Dec(0, 0)
    ELSE IF Gt(value, NsAbove) THEN DivBy(value, NsPerMs)
    ELSE IF Gt(value, UsAbove) THEN DivBy(value, UsPerMs)
    ELSE IF Le(value, SecondsUpTo) THEN MulBy(value, MsPerSecond)
    ELSE Norm(value)

MaxMantissa == 30

MaxDecimals == 2

MaxExponent == 9

\* The values next to the thresholds that no small mantissa reaches.
NearThresholds == {Dec(9999, 0), Dec(10001, 0), Dec(9999999, 0), Dec(10000001, 0), Dec(1001, -2)}

DurationValues ==
    {NotANumber} \cup NearThresholds
    \cup {Norm(Dec(m, e)) : m \in (0 - MaxMantissa)..MaxMantissa,
                            e \in (0 - MaxDecimals)..MaxExponent}

DurationInit ==
    /\ pc = "start"
    /\ args \in DurationValues
    /\ returned = None
    /\ locals = Idle
    /\ expr = Idle /\ reference = Idle /\ lib = Idle /\ result = Idle
    /\ resp = Idle /\ parts = Idle /\ extracted = Idle /\ computed = Idle
    /\ argv = Idle /\ requests = Idle /\ outcome = Idle

ConvertDurationToMs ==
    /\ pc = "start"
    /\ returned' = _convert_duration_to_ms(args)
    /\ pc' = "done"
    /\ UNCHANGED <<args, locals, timeVars, jsonVars, cmdVars>>

DurationNext == ConvertDurationToMs

SpecDuration == DurationInit /\ [][DurationNext]_vars

\* The same number with its decimal point moved by shift places.
Shifted(d, shift) == Norm(Dec(d.m, d.e + shift))

DictSet(kvs, key, val) ==
    IF \E i \in 1..Len(kvs) : kvs[i].k = key
    THEN [i \in 1..Len(kvs) |-> IF kvs[i].k = key THEN KV(key, val) ELSE kvs[i]]
    ELSE Append(kvs, KV(key, val))

\* A variant of dict.update that keeps the value a key already has.
RECURSIVE DictUpdate_KeepExisting(_, _)
DictUpdate_KeepExisting(kvs, other) ==
    IF other = <<>> THEN kvs
    ELSE DictUpdate_KeepExisting(
             IF \E i \in 1..Len(kvs) : kvs[i].k = other[1].k
             THEN kvs ELSE Append(kvs, other[1]),
             Tail(other))

\* d.update(other), on the pairs of both
RECURSIVE DictUpdate(_, _)
DictUpdate(kvs, other) ==
    IF other = <<>> THEN kvs
    ELSE DictUpdate(DictSet(kvs, other[1].k, other[1].x), Tail(other))

\* The words a "k:v" string of the model is made of; no key holds a colon.
TagKeys == {"env", "service"}

TagValues == {"prd", "h:1"}

Paddings == {"", " "}

\* The strings "k:v", with or without blanks around k and v.
TagString(key, val, pad) == pad \o key \o pad \o ":" \o pad \o val \o pad

\* ":" in el
HasColon(str) ==
    \E key \in TagKeys, val \in TagValues, pad \in Paddings :
        str = TagString(key, val, pad)

\* el.split(":", 1), both halves stripped: the cut is at the first colon.
SplitStripped(str) ==
    CHOOSE kv \in TagKeys \X TagValues :
        \E pad \in Paddings : str = TagString(kv[1], kv[2], pad)

\* str(x) of a key
StrOf(x) == IF x.t = "num" THEN ToString(x.n) ELSE x.s

\* for k, v in el.items(): if k not in result: result[str(k)] = v
RECURSIVE SetMissing(_, _)
SetMissing(kvs, items) ==
    IF items = <<>> THEN kvs
    ELSE SetMissing(
             IF \E i \in 1..Len(kvs) : kvs[i].k = items[1].k
             THEN kvs ELSE DictSet(kvs, items[1].k, items[1].x),
             Tail(items))

\* One turn of the loop of _coerce_attrs_map over the elements of a list.
CoerceElement(kvs, el) ==
    IF IsDict(el)
    THEN IF HasKey(el, "key") /\ HasKey(el, "value")
         THEN DictSet(kvs, StrOf(Get(el, "key")), Get(el, "value"))
         ELSE SetMissing(kvs, el.v)
    ELSE IF el.t = "str" /\ HasColon(el.s)
         THEN DictSet(kvs, SplitStripped(el.s)[1], JStr(SplitStripped(el.s)[2]))
         ELSE kvs

RECURSIVE CoerceElements(_, _)
CoerceElements(kvs, els) ==
    IF els = <<>> THEN kvs
    ELSE CoerceElements(CoerceElement(kvs, els[1]), Tail(els))

\* _coerce_attrs_map(obj)
_coerce_attrs_map(obj) ==
    IF IsDict(obj) THEN obj
    ELSE IF IsList(obj) THEN JDict(CoerceElements(<<>>, obj.v))
    ELSE EmptyDict

\* _render_spans_table: the mapping nested of one item
nested(item) ==
    LET attrs == Or(Get(Or(item, EmptyDict), "attributes"), EmptyDict)
        n1 == DictUpdate(<<>>, _coerce_attrs_map(Get(attrs, "attributes")).v)
        n2 == DictUpdate(n1, _coerce_attrs_map(Get(attrs, "custom")).v)
        n3 == DictUpdate(n2, _coerce_attrs_map(Get(attrs, "tags")).v)
    IN  JDict(n3)

\* What one source says: a value for some of the keys.
AttrMaps == UNION {[K -> TagValues] : K \in SUBSET TagKeys}

KeyOrder == <<"env", "service">>

KeysOf(m) == SelectSeq(KeyOrder, LAMBDA key : key \in DOMAIN m)

Encodings == {"mapping", "pairs", "strings", "padded", "dicts"}

\* The JSON a source holds when it says m in the given encoding: a mapping, a
\* list of {key, value} pairs, a list of "k:v" strings, such a list with
\* blanks around the words and a string without colon at its head, or a list
\* of one-key mappings.
Encode(m, enc) ==
    LET ks == KeysOf(m)
    IN  CASE enc = "mapping" ->
                 JDict([i \in 1..Len(ks) |-> KV(ks[i], JStr(m[ks[i]]))])
          [] enc = "pairs" ->
                 JList([i \in 1..Len(ks) |->
                          JDict(<<KV("key", JStr(ks[i])), KV("value", JStr(m[ks[i]]))>>)])
          [] enc = "strings" ->
                 JList([i \in 1..Len(ks) |-> JStr(TagString(ks[i], m[ks[i]], ""))])
          [] enc = "padded" ->
                 JList(<<JStr("plain")>>
                       \o [i \in 1..Len(ks) |-> JStr(TagString(ks[i], m[ks[i]], " "))])
          [] enc = "dicts" ->
                 JList([i \in 1..Len(ks) |-> JDict(<<KV(ks[i], JStr(m[ks[i]]))>>)])
          [] OTHER -> Absent

\* A source: what it says and how; an absent source says nothing.
Sources ==
    [m : AttrMaps, enc : Encodings] \cup {[m |-> <<>>, enc |-> "absent"]}

SourceNames == <<"attributes", "custom", "tags">>

\* The span item whose three sources are the given ones.
MkItem(srcs) ==
    MkDict(<<KV("attributes",
                MkDict([i \in 1..3 |->
                          KV(SourceNames[i], Encode(srcs[i].m, srcs[i].enc))]))>>)

AttrsInit ==
    /\ pc = "start"
    /\ \E srcs \in [1..3 -> Sources] :
           args = [sources |-> srcs, item |-> MkItem(srcs)]
    /\ returned = None
    /\ locals = Idle
    /\ expr = Idle /\ reference = Idle /\ lib = Idle /\ result = Idle
    /\ resp = Idle /\ parts = Idle /\ extracted = Idle /\ computed = Idle
    /\ argv = Idle /\ requests = Idle /\ outcome = Idle

\* The head of one turn of the loop of _render_spans_table.
CoalesceAttributes ==
    /\ pc = "start"
    /\ returned' = nested(args.item)
    /\ pc' = "done"
    /\ UNCHANGED <<args, locals, timeVars, jsonVars, cmdVars>>

AttrsNext == CoalesceAttributes

SpecAttrs == AttrsInit /\ [][AttrsNext]_vars

\* The sources, in merge order, that say something about the key.
Having(key) == {i \in 1..3 : key \in DOMAIN args.sources[i].m}

Latest(S) == CHOOSE i \in S : \A j \in S : j <= i

\* C16: the attributes found under attributes.attributes, attributes.custom
\* and attributes.tags, each a mapping, a list of {key, value} pairs or a list
\* of "k:v" strings, are coalesced into one flat mapping, and for a key
\* present in more than one source the value of the source merged later
\* overwrites the earlier one.
C16_AttributesCoalesced ==
    pc = "done" =>
        /\ IsDict(returned)
        /\ \A key \in TagKeys :
               IF Having(key) = {} THEN ~HasKey(returned, key)
               ELSE Get(returned, key)
                        = JStr(args.sources[Latest(Having(key))].m[key])

C16_Witness ==
    /\ pc = "done"
    /\ args.sources[1] = [m |-> [key \in {"env"} |-> "prd"], enc |-> "mapping"]
    /\ args.sources[2] = [m |-> [key \in {"env", "service"} |-> "h:1"], enc |-> "pairs"]
    /\ args.sources[3] = [m |-> [key \in {"env"} |-> "prd"], enc |-> "strings"]
    /\ returned = JDict(<<KV("env", JStr("prd")), KV("service", JStr("h:1"))>>)

(***************************************************************************)
(* The HTTP transport (api.ApiClient.request).                             *)
(*                                                                         *)
(* A response has a status and a body; the body is its text and, when the  *)
(* text is JSON, the value resp.json() parses it to.  What request hands   *)
(* back, or puts in an ApiError, is a payload: a parsed value or a text.   *)
(***************************************************************************)
Parsed(x) == [kind |-> "json", json |-> x, text |-> ""]

RawText(str) == [kind |-> "text", json |-> JNull, text |-> str]

JsonBody(x, str) == [isJson |-> TRUE, parsed |-> x, text |-> str]

TextBody(str) == [isJson |-> FALSE, parsed |-> JNull, text |-> str]

\* try: resp.json() except Exception: resp.text
JsonOrText(body) ==
    IF body.isJson THEN Parsed(body.parsed) ELSE RawText(body.text)

Returned(payload) == [ok |-> TRUE, exc |-> "", status_code |-> 0, payload |-> payload]

Raised(exc, status, payload) ==
    [ok |-> FALSE, exc |-> exc, status_code |-> status, payload |-> payload]

ErrorStatus == 400

\* A variant that lets status 400 through.
request_Above400(response) ==
    IF ~response.arrived
    THEN Raised("RequestException", 0, RawText(""))
    ELSE IF response.status_code > ErrorStatus
         THEN Raised("ApiError", response.status_code, JsonOrText(response.body))
         ELSE Returned(JsonOrText(response.body))

\* ApiClient.request, given what requests.request does: it raises (no
\* response arrived) or returns a response.
request(response) ==
    IF ~response.arrived
    THEN Raised("RequestException", 0, RawText(""))
    ELSE IF response.status_code >= ErrorStatus
         THEN Raised("ApiError", response.status_code, JsonOrText(response.body))
         ELSE Returned(JsonOrText(response.body))

Statuses == {200, 201, 204, 302, 399, 400, 401, 403, 404, 429, 500, 503}

Bodies ==
    { JsonBody(MkDict(<<KV("data", EmptyList)>>), "{\"data\": []}"),
      JsonBody(MkDict(<<KV("errors", JList(<<JStr("Forbidden")>>))>>),
               "{\"errors\": [\"Forbidden\"]}"),
      JsonBody(JNull, "null"),
      JsonBody(JStr("ok"), "\"ok\""),
      JsonBody(EmptyList, "[]"),
      TextBody(""),
      TextBody("<html>Bad Gateway</html>"),
      TextBody("OK") }

Responses ==
    [arrived : {TRUE}, status_code : Statuses, body : Bodies]
    \cup [arrived : {FALSE}, status_code : {0}, body : {TextBody("")}]

ApiInit ==
    /\ pc = "start"
    /\ args \in Responses
    /\ returned = None
    /\ locals = Idle
    /\ expr = Idle /\ reference = Idle /\ lib = Idle /\ result = Idle
    /\ resp = Idle /\ parts = Idle /\ extracted = Idle /\ computed = Idle
    /\ argv = Idle /\ requests = Idle /\ outcome = Idle

ApiRequest ==
    /\ pc = "start"
    /\ returned' = request(args)
    /\ pc' = "done"
    /\ UNCHANGED <<args, locals, timeVars, jsonVars, cmdVars>>

ApiNext == ApiRequest

SpecApi == ApiInit /\ [][ApiNext]_vars

\* ApiError is raised exactly for a status from 400 on, with that status and
\* the body, parsed when it is JSON and as text otherwise.
ApiErrorFrom400 ==
    /\ (returned.exc = "ApiError") <=> (args.status_code >= 400)
    /\ args.status_code >= 400 =>
           /\ returned.status_code = args.status_code
           /\ args.body.isJson => returned.payload = Parsed(args.body.parsed)
           /\ ~args.body.isJson => returned.payload = RawText(args.body.text)

\* C17 as stated: ApiClient.request fails with an ApiError carrying the status
\* code and payload (the parsed JSON error body, or the raw text when the body
\* is not JSON) exactly when the response status is >= 400; for every status
\* below 400 it returns the parsed body and raises nothing.
C17_ReturnsParsedBelow400 ==
    (pc = "done" /\ args.arrived) =>
        /\ ApiErrorFrom400
        /\ args.status_code < 400 =>
               /\ returned.ok
               /\ returned.payload.kind = "json"
               /\ returned.payload.json = args.body.parsed

\* C17, amended: ... for every status below 400 it raises nothing and returns
\* the parsed body, or the raw text when the body is not JSON.
C17_ReturnsParsedOrTextBelow400 ==
    (pc = "done" /\ args.arrived) =>
        /\ ApiErrorFrom400
        /\ args.status_code < 400 =>
               /\ returned.ok
               /\ args.body.isJson => returned.payload = Parsed(args.body.parsed)
               /\ ~args.body.isJson => returned.payload = RawText(args.body.text)

C17_Witness ==
    /\ pc = "done"
    /\ args.arrived /\ args.status_code = 204 /\ args.body = TextBody("")
    /\ returned = Returned(RawText(""))

(***************************************************************************)
(* Credential resolution (config.load_config, config.resolve_context).     *)
(*                                                                         *)
(* An environment variable and the --context option are JSON values: JNull *)
(* when unset, a string otherwise.  The configuration file is missing,     *)
(* unparseable, or holds the value yaml.safe_load returns.                 *)
(***************************************************************************)
Resolved(site, api_key, app_key) ==
    [ok |-> TRUE, exc |-> "", site |-> site, api_key |-> api_key, app_key |-> app_key]

Failed(exc) ==
    [ok |-> FALSE, exc |-> exc, site |-> JNull, api_key |-> JNull, app_key |-> JNull]

FileMissing == [state |-> "missing", data |-> JNull]

FileUnparseable == [state |-> "unparseable", data |-> JNull]

FileHolding(data) == [state |-> "parsed", data |-> data]

\* load_config(path)
load_config(file) ==
    IF file.state = "missing" THEN JReturn(EmptyDict)
    ELSE IF file.state = "unparseable" THEN JRaise("RuntimeError")
    ELSE LET data == Or(file.data, EmptyDict)
         IN  IF ~IsDict(data) THEN JRaise("RuntimeError") ELSE JReturn(data)

\* x.get(key) where x need not be a dict: the call raises on a string, a
\* number or a list.
GetOrRaise(x, key) ==
    IF IsDict(x) THEN JReturn(Get(x, key)) ELSE JRaise("AttributeError")

\* A variant whose environment branch fills a missing key from the context.
resolve_from_env_KeysFromYaml(context_name, environ, file) ==
    LET cfg == load_config(file)
        ctxs == Or(Get(cfg.val, "contexts"), EmptyDict)
        ctx == IF Truthy(context_name) /\ IsDict(ctxs)
               THEN Or(Get(ctxs, context_name.s), EmptyDict)
               ELSE EmptyDict
        ctx_site == GetOrRaise(Or(ctx, EmptyDict), "site")
    IN  IF Truthy(environ.DD_SITE)
        THEN Resolved(environ.DD_SITE, environ.DD_API_KEY, environ.DD_APP_KEY)
        ELSE IF ~cfg.ok THEN Failed(cfg.exc)
        ELSE IF ~ctx_site.ok THEN Failed(ctx_site.exc)
        ELSE IF ~Truthy(ctx_site.val) THEN Failed("RuntimeError")
        ELSE Resolved(ctx_site.val, Or(environ.DD_API_KEY, Get(ctx, "api_key")),
                      Or(environ.DD_APP_KEY, Get(ctx, "app_key")))

\* resolve_context: the branch taken when an environment variable is set
resolve_from_env(context_name, environ, file) ==
    LET cfg == load_config(file)
        ctxs == Or(Get(cfg.val, "contexts"), EmptyDict)
        ctx == IF Truthy(context_name) /\ IsDict(ctxs)
               THEN Or(Get(ctxs, context_name.s), EmptyDict)
               ELSE EmptyDict
        ctx_site == GetOrRaise(Or(ctx, EmptyDict), "site")
    IN  IF Truthy(environ.DD_SITE)
        THEN Resolved(environ.DD_SITE, environ.DD_API_KEY, environ.DD_APP_KEY)
        ELSE IF ~cfg.ok THEN Failed(cfg.exc)
        ELSE IF ~ctx_site.ok THEN Failed(ctx_site.exc)
        ELSE IF ~Truthy(ctx_site.val) THEN Failed("RuntimeError")
        ELSE Resolved(ctx_site.val, environ.DD_API_KEY, environ.DD_APP_KEY)

\* resolve_context: the branch taken when no environment variable is set
resolve_from_yaml(context_name, file) ==
    LET cfg == load_config(file)
        contexts == Get(cfg.val, "contexts")
        selected == IF Truthy(context_name) THEN context_name.s ELSE "prd"
        ctx == Get(contexts, selected)
    IN  IF ~cfg.ok THEN Failed(cfg.exc)
        ELSE IF ~Truthy(contexts) \/ ~IsDict(contexts) THEN Failed("RuntimeError")
        ELSE IF ~Truthy(ctx) \/ ~IsDict(ctx) THEN Failed("RuntimeError")
        ELSE IF ~Truthy(Get(ctx, "site")) THEN Failed("RuntimeError")
        ELSE Resolved(Get(ctx, "site"), Get(ctx, "api_key"), Get(ctx, "app_key"))

\* resolve_context(context_name, config_path)
resolve_context(context_name, environ, file) ==
    IF \/ Truthy(environ.DD_SITE)
       \/ Truthy(environ.DD_API_KEY)
       \/ Truthy(environ.DD_APP_KEY)
    THEN resolve_from_env(context_name, environ, file)
    ELSE resolve_from_yaml(context_name, file)

\* os.environ: a variable is unset, set to the empty string, or set.
Environs ==
    [DD_SITE : {JNull, JStr(""), JStr("datadoghq.eu")},
     DD_API_KEY : {JNull, JStr(""), JStr("env-api")},
     DD_APP_KEY : {JNull, JStr("env-app")}]

ContextNames == {JNull, JStr("prd"), JStr("dev")}

\* What a context of the file may be.
ContextVals ==
    { Absent,
      JStr("datadoghq.com"),
      MkDict(<<KV("api_key", JStr("yaml-api"))>>),
      MkDict(<<KV("site", JStr("")), KV("api_key", JStr("yaml-api"))>>),
      MkDict(<<KV("site", JStr("datadoghq.com")), KV("api_key", JStr("yaml-api")),
               KV("app_key", JStr("yaml-app"))>>) }

DevContextVals ==
    { Absent, MkDict(<<KV("site", JStr("us5.datadoghq.com"))>>) }

ConfigFiles ==
    { FileMissing, FileUnparseable,
      FileHolding(JNull),
      FileHolding(JList(<<JStr("contexts")>>)),
      FileHolding(MkDict(<<KV("contexts", JList(<<JStr("prd")>>))>>)) }
    \cup { FileHolding(MkDict(<<KV("contexts", MkDict(<<KV("prd", p), KV("dev", d)>>))>>)) :
               p \in ContextVals, d \in DevContextVals }

ConfigInit ==
    /\ pc = "start"
    /\ args \in [context_name : ContextNames, environ : Environs, file : ConfigFiles]
    /\ returned = None
    /\ locals = Idle
    /\ expr = Idle /\ reference = Idle /\ lib = Idle /\ result = Idle
    /\ resp = Idle /\ parts = Idle /\ extracted = Idle /\ computed = Idle
    /\ argv = Idle /\ requests = Idle /\ outcome = Idle

ResolveContext ==
    /\ pc = "start"
    /\ returned' = resolve_context(args.context_name, args.environ, args.file)
    /\ pc' = "done"
    /\ UNCHANGED <<args, locals, timeVars, jsonVars, cmdVars>>

ConfigNext == ResolveContext

SpecConfig == ConfigInit /\ [][ConfigNext]_vars

\* The context the file is asked for: the named one, 'prd' when none is given.
SelectedContext ==
    LET name == IF args.context_name = JNull THEN "prd" ELSE args.context_name.s
        data == args.file.data
    IN  IF args.file.state = "parsed" /\ IsDict(data)
           /\ IsDict(Get(data, "contexts"))
           /\ IsDict(Get(Get(data, "contexts"), name))
        THEN Get(Get(data, "contexts"), name)
        ELSE EmptyDict

\* A non-empty string.
NonEmpty(x) == x.t = "str" /\ x.s # ""

\* C18: resolve_context takes the site from DD_SITE with priority, falls back
\* to the named YAML context (context 'prd' when none is given) when the
\* environment does not supply it, and fails with a configuration error only
\* if neither yields a non-empty site; in particular with DD_API_KEY set,
\* DD_SITE unset, no --context and a YAML 'prd' context that has a site, it
\* succeeds with that site.
C18_SiteFromEnvThenYaml ==
    pc = "done" =>
        LET env_site == args.environ.DD_SITE
            yaml_site == Get(SelectedContext, "site")
        IN  /\ NonEmpty(env_site) => returned.ok /\ returned.site = env_site
            /\ (~NonEmpty(env_site) /\ NonEmpty(yaml_site))
                   => returned.ok /\ returned.site = yaml_site
            /\ ~returned.ok
                   => /\ returned.exc = "RuntimeError"
                      /\ ~NonEmpty(env_site) /\ ~NonEmpty(yaml_site)

(***************************************************************************)
(* The command tree (cli.app and the Typer apps added to it) and the walk  *)
(* over its --help output (checks.debug_help).                             *)
(*                                                                         *)
(* A command path is the sequence of its names.  A help output is what the *)
(* walk reads of it: how it is laid out, the names it lists as commands    *)
(* and the options it shows.  Typer lays the help out as plain Click text  *)
(* ("Commands:" followed by indented names) or, when it renders with rich, *)
(* as boxed panels whose title line is not "Commands:".                    *)
(***************************************************************************)
\* The commands registered under a path, in registration order; none for a
\* leaf command.
Subcommands(path) ==
    CASE path = <<>> ->
             <<"guaf", "auth", "monitors", "dashboards", "incidents",
               "synthetics", "logs", "apm", "services", "metrics">>
      [] path = <<"auth">> -> <<"status">>
      [] path = <<"monitors">> -> <<"list", "mute">>
      [] path = <<"dashboards">> -> <<"get">>
      [] path = <<"incidents">> -> <<"create">>
      [] path = <<"synthetics">> -> <<"trigger">>
      [] path = <<"logs">> -> <<"query">>
      [] path = <<"apm">> -> <<"spans", "errors">>
      [] path = <<"apm", "spans">> -> <<"list", "search">>
      [] path = <<"apm", "errors">> -> <<"top-resources", "rate">>
      [] path = <<"services">> -> <<"apply", "get", "list", "delete">>
      [] path = <<"metrics">> -> <<"query", "k8s-resources", "tag-cardinality">>
      [] OTHER -> <<>>

\* The options the function of a command declares.
Declared(path) ==
    CASE path = <<>> -> {"--context", "--config"}
      [] path = <<"guaf">> -> {}
      [] path = <<"auth", "status">> -> {}
      [] path = <<"monitors", "list">> -> {"--name", "--debug"}
      [] path = <<"monitors", "mute">> -> {"--id", "--debug"}
      [] path = <<"dashboards", "get">> -> {"--id", "--debug"}
      [] path = <<"incidents", "create">> -> {"--title", "--severity", "--debug"}
      [] path = <<"synthetics", "trigger">> -> {"--public-id"}
      [] path = <<"logs", "query">> ->
             {"--from", "--to", "--service", "--query", "--limit", "--debug"}
      [] path = <<"apm", "spans", "list">> ->
             {"--service", "--env", "--from", "--to", "--limit", "--query",
              "--sort", "--debug"}
      [] path = <<"apm", "spans", "search">> ->
             {"--query", "--env", "--from", "--to", "--limit", "--sort", "--debug"}
      [] path = <<"apm", "errors", "top-resources">> ->
             {"--service", "--env", "--from", "--to", "--limit", "--debug"}
      [] path = <<"apm", "errors", "rate">> ->
             {"--service", "--group-by", "--env", "--from", "--to", "--limit",
              "--debug"}
      [] path = <<"services", "apply">> ->
             {"--file", "--service", "--schema-version", "--description", "--env",
              "--team", "--application", "--tier", "--tag", "--debug"}
      [] path = <<"services", "get">> -> {"--service", "--debug"}
      [] path = <<"services", "list">> -> {"--debug"}
      [] path = <<"services", "delete">> -> {"--service", "--debug"}
      [] path = <<"metrics", "query">> ->
             {"--query", "--from", "--to", "--rollup", "--limit", "--scope-tag",
              "--spark", "--spark-points", "--debug"}
      [] path = <<"metrics", "k8s-resources">> ->
             {"--cluster", "--kube-service", "--kube-deployment", "--from", "--to",
              "--rollup", "--cpu-unit", "--debug"}
      [] path = <<"metrics", "tag-cardinality">> -> {"--metric", "--debug"}
      [] OTHER -> {}

\* _invoke_help(app, path): the output of <app> <path> --help
_invoke_help(app, path, layout) ==
    [layout |-> layout,
     commands |-> Subcommands(app \o path),
     options |-> Declared(app \o path) \cup {"--help"}]

\* _parse_subcommands(help_text): the names under the line "Commands:"
_parse_subcommands(help_text) ==
    IF help_text.layout = "plain" THEN help_text.commands ELSE <<>>

\* "--debug" in output
ShowsDebug(help_text) == "--debug" \in help_text.options

\* [*path, name] for every name, in order
Extended(path, names) == [i \in 1..Len(names) |-> Append(path, names[i])]

\* The apps with several commands, each of which find_missing_debug can walk.
Apps == { <<>>, <<"monitors">>, <<"apm">>, <<"apm", "spans">>,
          <<"apm", "errors">>, <<"services">>, <<"metrics">> }

Layouts == {"plain", "rich"}

DebugInit ==
    /\ pc = "walk"
    /\ args \in [app : Apps, layout : Layouts]
    /\ locals = [pending |-> << <<>> >>, inventory |-> <<>>, missing |-> <<>>]
    /\ returned = None
    /\ expr = Idle /\ reference = Idle /\ lib = Idle /\ result = Idle
    /\ resp = Idle /\ parts = Idle /\ extracted = Idle /\ computed = Idle
    /\ argv = Idle /\ requests = Idle /\ outcome = Idle

\* collect_inventory: one call of _walk, for the path the recursion reaches
\* next.
Walk ==
    /\ pc = "walk"
    /\ locals.pending # <<>>
    /\ LET path == Head(locals.pending)
           subs == _parse_subcommands(_invoke_help(args.app, path, args.layout))
       IN  locals' =
               IF subs = <<>>
               THEN [locals EXCEPT !.pending = Tail(@),
                                   !.inventory = Append(@, path)]
               ELSE [locals EXCEPT !.pending = Extended(path, subs) \o Tail(@)]
    /\ UNCHANGED <<pc, args, returned, timeVars, jsonVars, cmdVars>>

\* collect_inventory returns the paths that are not the empty root entry.
CollectInventory ==
    /\ pc = "walk"
    /\ locals.pending = <<>>
    /\ locals' = [locals EXCEPT
                      !.inventory = SelectSeq(@, LAMBDA path : path # <<>>)]
    /\ pc' = "check"
    /\ UNCHANGED <<args, returned, timeVars, jsonVars, cmdVars>>

\* find_missing_debug: one turn of its loop over the inventory.
CheckHelp ==
    /\ pc = "check"
    /\ locals.inventory # <<>>
    /\ LET path == Head(locals.inventory)
           output == _invoke_help(args.app, path, args.layout)
       IN  locals' = [locals EXCEPT
                          !.inventory = Tail(@),
                          !.missing = IF ShowsDebug(output) THEN @
                                      ELSE Append(@, path)]
    /\ UNCHANGED <<pc, args, returned, timeVars, jsonVars, cmdVars>>

\* find_missing_debug returns.
ReturnMissing ==
    /\ pc = "check"
    /\ locals.inventory = <<>>
    /\ returned' = locals.missing
    /\ pc' = "done"
    /\ UNCHANGED <<args, locals, timeVars, jsonVars, cmdVars>>

DebugNext ==
    \/ Walk
    \/ CollectInventory
    \/ CheckHelp
    \/ ReturnMissing

SpecDebug == DebugInit /\ [][DebugNext]_vars

\* The leaf commands below a path: the command paths with no subcommands.
RECURSIVE LeafCommands(_)
LeafCommands(path) ==
    IF Subcommands(path) = <<>> THEN {path}
    ELSE UNION {LeafCommands(Append(path, Subcommands(path)[i])) :
                    i \in 1..Len(Subcommands(path))}

\* C19: every leaf command of the CLI tree (every command path with no
\* subcommands, including auth status, synthetics trigger and guaf) exposes a
\* --debug flag, so find_missing_debug(app) returns the empty list.
C19_EveryLeafHasDebug ==
    (pc = "done" /\ args.app = <<>>) =>
        /\ \A path \in LeafCommands(<<>>) : "--debug" \in Declared(path)
        /\ returned = <<>>

(***************************************************************************)
(* The except clauses of the handlers that perform HTTP calls.             *)
(*                                                                         *)
(* An exception caught by a handler is an ApiError with its status code    *)
(* and payload, or another exception with its message.  What a clause      *)
(* prints is a sequence of lines, each the record of what it shows.        *)
(***************************************************************************)
ApiError(status_code, payload) ==
    [type |-> "ApiError", status_code |-> status_code, payload |-> payload,
     message |-> "HTTP"]

OtherError(type, message) ==
    [type |-> type, status_code |-> 0, payload |-> "", message |-> message]

\* console.print(f"[red]HTTP {exc.status_code}[/red] {exc.payload}")
HttpLine(exc) ==
    [shows |-> "http", status_code |-> exc.status_code, payload |-> exc.payload,
     message |-> ""]

\* console.print(f"[red]Error:[/red] {exc}"): str(exc) of an ApiError is
\* "HTTP <status_code>: <payload>" (api.py 13-14).
ErrorLine(exc) ==
    [shows |-> "error", status_code |-> exc.status_code, payload |-> exc.payload,
     message |-> exc.message]

\* What the process does with a caught exception: the lines printed, then
\* typer.Exit(code=1).
Caught(lines) == [printed |-> lines, exit |-> 1]

\* except Exception as exc: raise typer.Exit(code=1) from exc
\* (logs.py 92-93; monitors.py 53-54, 74-75; incidents.py 42-43; auth.py
\* 33-34; synthetics.py 36-37)
except_silent(debug, exc) == Caught(<<>>)

\* if debug and isinstance(exc, ApiError): print HTTP line
\* (metrics.py 182-185, 266-269, 313-316; dashboards.py 32-35; services.py
\* 156-159, 183-186, 222-225, 245-248)
except_debug_api_error(debug, exc) ==
    Caught(IF debug /\ exc.type = "ApiError" THEN <<HttpLine(exc)>> ELSE <<>>)

\* if debug: print the HTTP line of an ApiError, the message of another
\* exception (apm.py 269-275, 321-327; service.py 327-337)
except_debug_any(debug, exc) ==
    Caught(IF ~debug THEN <<>>
           ELSE IF exc.type = "ApiError" THEN <<HttpLine(exc)>>
           ELSE <<ErrorLine(exc)>>)

\* console.print(f"[red]Error:[/red] {exc}") whatever --debug
\* (apm.py 404-406, 474-476)
except_always(debug, exc) == Caught(<<ErrorLine(exc)>>)

SilentCommands ==
    {"logs query", "monitors list", "monitors mute", "incidents create",
     "auth status", "synthetics trigger"}

\* The commands that declare no --debug option.
NoDebugCommands == {"auth status", "synthetics trigger"}

DebugApiErrorCommands ==
    {"metrics query", "metrics k8s-resources", "metrics tag-cardinality",
     "dashboards get", "services apply", "services get", "services list",
     "services delete"}

DebugAnyCommands == {"apm spans list", "apm spans search", "service troubleshoot"}

AlwaysCommands == {"apm errors top-resources", "apm errors rate"}

HttpCommands ==
    SilentCommands \cup DebugApiErrorCommands \cup DebugAnyCommands \cup AlwaysCommands

CaughtExceptions ==
    { ApiError(403, "{\"errors\": [\"Forbidden\"]}"),
      ApiError(500, "<html>Internal Server Error</html>"),
      ApiError(404, ""),
      OtherError("ConnectionError", "connection refused"),
      OtherError("ParserError", "Unknown string format") }

ExceptInit ==
    /\ pc = "start"
    /\ args \in { a \in [cmd : HttpCommands, debug : BOOLEAN, exc : CaughtExceptions] :
                      a.cmd \in NoDebugCommands => ~a.debug }
    /\ returned = None
    /\ locals = Idle
    /\ expr = Idle /\ reference = Idle /\ lib = Idle /\ result = Idle
    /\ resp = Idle /\ parts = Idle /\ extracted = Idle /\ computed = Idle
    /\ argv = Idle /\ requests = Idle /\ outcome = Idle

\* The except clause of the command has run.
Handled(commands, caught) ==
    /\ pc = "start"
    /\ args.cmd \in commands
    /\ returned' = caught
    /\ pc' = "done"
    /\ UNCHANGED <<args, locals, timeVars, jsonVars, cmdVars>>

ExceptSilent == Handled(SilentCommands, except_silent(args.debug, args.exc))

ExceptDebugApiError ==
    Handled(DebugApiErrorCommands, except_debug_api_error(args.debug, args.exc))

ExceptDebugAny == Handled(DebugAnyCommands, except_debug_any(args.debug, args.exc))

ExceptAlways == Handled(AlwaysCommands, except_always(args.debug, args.exc))

ExceptNext ==
    \/ ExceptSilent
    \/ ExceptDebugApiError
    \/ ExceptDebugAny
    \/ ExceptAlways

SpecExcept == ExceptInit /\ [][ExceptNext]_vars

\* Some printed line shows the status code and the payload of the error.
ShowsApiError(lines, exc) ==
    \E i \in 1..Len(lines) :
        lines[i].status_code = exc.status_code /\ lines[i].payload = exc.payload

\* C21: for every command that performs an HTTP call, an ApiError is printed
\* with its status code and payload if and only if --debug is set; without
\* --debug nothing about the error is printed and the command only exits with
\* code 1.
C21_ApiErrorPrintedIffDebug ==
    (pc = "done" /\ args.exc.type = "ApiError") =>
        /\ ShowsApiError(returned.printed, args.exc) <=> args.debug
        /\ ~args.debug => returned.printed = <<>>
        /\ returned.exit = 1

\* The outcome of a process that has not ended.
Running == [exit |-> -1, error |-> "running"]

(***************************************************************************)
(* The troubleshoot view (service.service_troubleshoot), step by step.     *)
(*                                                                         *)
(* requests holds the calls issued so far and locals what the run has seen *)
(* and shown: the kind of each answer received, in order, and the things   *)
(* printed.  An answer is "ok", "error" (status >= 400: ApiClient raises   *)
(* ApiError), "odd" (a body of a shape the code that reads it raises on),  *)
(* or, for a body read without harm but not rendered without, "odd_render" *)
(* and "odd_summary".                                                      *)
(***************************************************************************)
TsCalls == <<"overview aggregate", "error aggregate", "top-resources aggregate",
             "logs search">>

TsRequest(name) ==
    [name |-> name,
     method |-> "POST",
     path |-> IF name = "logs search" THEN "/api/v2/logs/events/search"
              ELSE "/api/v2/spans/analytics/aggregate"]

\* The four things the view renders, in order.
TsOutputs == <<"APM overview", "Top error resources", "Last error logs", "Resumen">>

\* The answer makes the handler's try block raise before its next statement
\* that issues a call or renders.
Raises(kind) == kind \in {"error", "odd"}

\* A variant in which the failure of a call is swallowed.
after_answer_IgnoresError(kind, next) == IF kind = "odd" THEN "exited" ELSE next

\* Where the run stands after an answer.
after_answer(kind, next) == IF Raises(kind) THEN "exited" ELSE next

\* A variant whose summary panel is printed on the way out of a failed run.
troubleshoot_except_WithSummary(printed, debug) ==
    (IF debug THEN Append(printed, "error") ELSE printed) \o <<"Resumen">>

\* service.py 327-337: what the except clause adds to the output.
troubleshoot_except(printed, debug) ==
    IF debug THEN Append(printed, "error") ELSE printed

TsArgvs == [from : CmdTimeExprs, debug : BOOLEAN]

TroubleshootInit ==
    /\ pc = "start"
    /\ argv \in TsArgvs
    /\ requests = <<>>
    /\ outcome = Running
    /\ locals = [answers |-> <<>>, printed |-> <<>>]
    /\ args = Idle /\ returned = Idle
    /\ expr = Idle /\ reference = Idle /\ lib = Idle /\ result = Idle
    /\ resp = Idle /\ parts = Idle /\ extracted = Idle /\ computed = Idle

TsUnchanged == <<argv, args, returned, timeVars, jsonVars>>

\* The exception leaves the try block: the except clause, then exit code 1.
TsFail(error, seen) ==
    /\ outcome' = [exit |-> 1, error |-> error]
    /\ locals' = [seen EXCEPT !.printed = troubleshoot_except(@, argv.debug)]
    /\ pc' = "exited"

\* service.py 183-190: the client, then the range.  A configuration error is
\* raised before the try block and ends the process with a traceback.
TsStart ==
    /\ pc = "start"
    /\ \E config \in BOOLEAN, now \in ClockReadings :
           IF ~config
           THEN /\ outcome' = [exit |-> 1, error |-> "RuntimeError"]
                /\ pc' = "exited"
                /\ UNCHANGED locals
           ELSE LET dt_from == parse_time(argv.from, now, Raise("ParserError"))
                IN  IF ~dt_from.ok
                    THEN TsFail(dt_from.exc, locals)
                    ELSE /\ pc' = "post 1"
                         /\ UNCHANGED <<outcome, locals>>
    /\ UNCHANGED <<requests, TsUnchanged>>

\* client.post of call i, after the payload rule --debug prints.
TsPost(i) ==
    /\ pc = "post " \o ToString(i)
    /\ requests' = Append(requests, TsRequest(TsCalls[i]))
    /\ locals' = [locals EXCEPT !.printed =
                      IF argv.debug THEN Append(@, TsCalls[i] \o " payload") ELSE @]
    /\ pc' = "wait " \o ToString(i)
    /\ UNCHANGED <<outcome, TsUnchanged>>

\* The answer to call i and the statements that read it, up to the next call
\* or the rendering.
TsAnswered(i, kinds, next) ==
    /\ pc = "wait " \o ToString(i)
    /\ \E kind \in kinds :
           LET seen == [locals EXCEPT
                            !.answers = Append(@, kind),
                            !.printed = IF argv.debug /\ kind # "error"
                                        THEN Append(@, TsCalls[i] \o " response")
                                        ELSE @]
           IN  IF after_answer(kind, next) = "exited"
               THEN TsFail(IF kind = "error" THEN "ApiError" ELSE "AttributeError", seen)
               ELSE /\ locals' = seen
                    /\ pc' = after_answer(kind, next)
                    /\ UNCHANGED outcome
    /\ UNCHANGED <<requests, TsUnchanged>>

PostOverview == TsPost(1)

OverviewAnswered == TsAnswered(1, {"ok", "odd", "error"}, "post 2")

PostErrors == TsPost(2)

ErrorsAnswered == TsAnswered(2, {"ok", "odd", "error"}, "post 3")

PostTop == TsPost(3)

TopAnswered ==
    TsAnswered(3, {"ok", "odd", "odd_render", "odd_summary", "error"}, "post 4")

PostLogs == TsPost(4)

LogsAnswered == TsAnswered(4, {"ok", "odd", "odd_render", "error"}, "render 1")

\* One of the four renderings (service.py 306-325); it raises on the answer
\* it cannot read.
TsRender(i, answer, chokesOn, next) ==
    /\ pc = "render " \o ToString(i)
    /\ IF locals.answers[answer] = chokesOn
       THEN TsFail("AttributeError", locals)
       ELSE /\ locals' = [locals EXCEPT !.printed = Append(@, TsOutputs[i])]
            /\ pc' = next
            /\ IF next = "exited"
               THEN outcome' = [exit |-> 0, error |-> ""]
               ELSE UNCHANGED outcome
    /\ UNCHANGED <<requests, TsUnchanged>>

RenderOverview == TsRender(1, 1, "never", "render 2")

RenderTopErrors == TsRender(2, 3, "odd_render", "render 3")

RenderLogs == TsRender(3, 4, "odd_render", "render 4")

RenderSummary == TsRender(4, 3, "odd_summary", "exited")

TroubleshootNext ==
    \/ TsStart
    \/ PostOverview
    \/ OverviewAnswered
    \/ PostErrors
    \/ ErrorsAnswered
    \/ PostTop
    \/ TopAnswered
    \/ PostLogs
    \/ LogsAnswered
    \/ RenderOverview
    \/ RenderTopErrors
    \/ RenderLogs
    \/ RenderSummary

SpecTroubleshoot == TroubleshootInit /\ [][TroubleshootNext]_vars

IsPrefix(s, t) == Len(s) <= Len(t) /\ SubSeq(t, 1, Len(s)) = s

IssuedNames == [i \in 1..Len(requests) |-> requests[i].name]

\* C22: troubleshoot issues at most four calls, in the order overview
\* aggregate, error aggregate, top-resources aggregate, logs search, each at
\* most once; a call is issued only after every earlier call was answered
\* without error, and a failed call ends the command with no later call.
C22_CallsInOrderNoRetry ==
    /\ IsPrefix(IssuedNames, TsCalls)
    /\ Len(locals.answers) \in {Len(requests) - 1, Len(requests)}
    /\ \A i \in 1..Len(locals.answers) :
           locals.answers[i] = "error" =>
               /\ i = Len(requests)
               /\ pc = "exited"
               /\ outcome.exit = 1

C22_Witness ==
    /\ pc = "exited"
    /\ Len(requests) = 3
    /\ locals.answers = <<"ok", "ok", "error">>

Shown(output) == \E i \in 1..Len(locals.printed) : locals.printed[i] = output

\* C29: troubleshoot prints its overview table, top-errors table, logs table
\* and summary panel only after all four calls succeeded; when a call fails
\* none of the four is printed.
C29_RendersAfterAllCalls ==
    (\E i \in 1..Len(TsOutputs) : Shown(TsOutputs[i])) =>
        /\ Len(requests) = Len(TsCalls)
        /\ Len(locals.answers) = Len(TsCalls)
        /\ \A i \in 1..Len(locals.answers) : locals.answers[i] # "error"

C29_Witness ==
    /\ pc = "exited"
    /\ outcome.exit = 0
    /\ ~argv.debug
    /\ locals.printed = TsOutputs
    /\ Len(requests) = Len(TsCalls)

(***************************************************************************)
(* A command from its first line to its exit, as far as the client goes:   *)
(* every handler begins with get_client_from_ctx(ctx), outside its try     *)
(* block, and sends its requests through the client it got (cli.py 39-45,  *)
(* api.py 26-32; logs.py 51-66 and the like in every command module).      *)
(***************************************************************************)
\* A variant that hands out a client with no site when resolution fails.
get_client_from_ctx_Unresolved(context_name, environ, file) ==
    LET r == resolve_context(context_name, environ, file)
    IN  IF r.ok THEN r ELSE Resolved(JStr(""), JNull, JNull)

\* cli.get_client_from_ctx, ApiClient.create_from_context: the client holds
\* what resolve_context returned; its exception is not caught.
get_client_from_ctx(context_name, environ, file) ==
    resolve_context(context_name, environ, file)

\* ApiClient._headers (api.py 34-43): a key is sent when it is not empty.
_headers(client) ==
    [api_key |-> IF Truthy(client.api_key) THEN client.api_key ELSE Absent,
     app_key |-> IF Truthy(client.app_key) THEN client.app_key ELSE Absent]

\* The most requests a command issues in the model (k8s-resources issues six).
MaxCalls == 2

ClientInit ==
    /\ pc = "start"
    /\ args \in [context_name : ContextNames, environ : Environs, file : ConfigFiles]
    /\ returned = None
    /\ requests = <<>>
    /\ outcome = Running
    /\ locals = Idle /\ argv = Idle
    /\ expr = Idle /\ reference = Idle /\ lib = Idle /\ result = Idle
    /\ resp = Idle /\ parts = Idle /\ extracted = Idle /\ computed = Idle

ClientUnchanged == <<args, locals, argv, timeVars, jsonVars>>

GetClientFromCtx ==
    /\ pc = "start"
    /\ LET client == get_client_from_ctx(args.context_name, args.environ, args.file)
       IN  /\ returned' = client
           /\ IF client.ok
              THEN pc' = "try" /\ UNCHANGED outcome
              ELSE pc' = "exited" /\ outcome' = [exit |-> 1, error |-> client.exc]
    /\ UNCHANGED <<requests, ClientUnchanged>>

\* client.get / client.post inside the try block; a status >= 400 raises
\* ApiError and the except clause exits with code 1.
ClientRequest ==
    /\ pc = "try"
    /\ Len(requests) < MaxCalls
    /\ requests' = Append(requests, [site |-> returned.site, headers |-> _headers(returned)])
    /\ \E failed \in BOOLEAN :
           IF failed
           THEN pc' = "exited" /\ outcome' = [exit |-> 1, error |-> "ApiError"]
           ELSE UNCHANGED <<pc, outcome>>
    /\ UNCHANGED <<returned, ClientUnchanged>>

\* The handler ends: it returns, or raises inside its try block and exits 1.
HandlerEnds ==
    /\ pc = "try"
    /\ \E code \in {0, 1} :
           outcome' = [exit |-> code, error |-> IF code = 0 THEN "" ELSE "Exception"]
    /\ pc' = "exited"
    /\ UNCHANGED <<requests, returned, ClientUnchanged>>

ClientNext ==
    \/ GetClientFromCtx
    \/ ClientRequest
    \/ HandlerEnds

SpecClient == ClientInit /\ [][ClientNext]_vars

ConfigurationError ==
    ~resolve_context(args.context_name, args.environ, args.file).ok

\* C23: credentials are resolved before the first HTTP request, so a
\* configuration error (no usable site, missing context) ends the command
\* with no request issued.
C23_ResolvedBeforeFirstRequest ==
    /\ requests # <<>> => returned # None /\ returned.ok
    /\ ConfigurationError => requests = <<>>
    /\ (ConfigurationError /\ pc # "start") => pc = "exited" /\ outcome.exit = 1

C23_Witness ==
    /\ pc = "exited"
    /\ ConfigurationError
    /\ returned.exc = "RuntimeError"
    /\ args.environ.DD_API_KEY = JStr("env-api")
    /\ requests = <<>>

(***************************************************************************)
(* logs query (logs.query_logs), in two steps: up to the search request,   *)
(* then the answer and the table.  locals holds what the run showed:       *)
(* whether it printed the table, and the rows of that table.               *)
(***************************************************************************)
LogsRequest(start, end, query) ==
    [method |-> "POST", path |-> "/api/v2/logs/events/search",
     from |-> start, to |-> end, query |-> query]

\* A message longer than the 400 characters the table keeps, and its head.
LongMessage == "boom (401 characters)"

LongMessageHead == "boom (400 characters)"

\* s[:400]
Slice400(s) == IF s = LongMessage THEN LongMessageHead ELSE s

\* str(x)
PyStr(x) ==
    CASE x.t = "str"  -> x.s
      [] x.t = "num"  -> ToString(x.n)
      [] x.t = "dict" -> "{...}"
      [] x.t = "list" -> "[...]"
      [] OTHER        -> "None"

\* table.add_row(str(timestamp), str(service_val), str(status_val), msg)
add_row(timestamp, service_val, status_val, msg) ==
    [ok |-> TRUE, exc |-> "",
     val |-> <<PyStr(timestamp), PyStr(service_val), PyStr(status_val), msg>>]

RowRaise(e) == [ok |-> FALSE, exc |-> e, val |-> <<>>]

\* logs.py 80-90: the row of one item
log_row(item) ==
    LET it == Or(item, EmptyDict) IN
    IF ~IsDict(it) THEN RowRaise("AttributeError")
    ELSE LET attrs == Or(Get(it, "attributes"), EmptyDict) IN
    IF ~IsDict(attrs) THEN RowRaise("AttributeError")
    ELSE LET timestamp == Or(Get(attrs, "timestamp"), JStr(""))
             nested_attrs == Or(Get(attrs, "attributes"), EmptyDict)
         IN
    IF ~IsDict(nested_attrs) THEN RowRaise("AttributeError")
    ELSE LET service_val == Or(Or(Get(nested_attrs, "service"), Get(attrs, "service")),
                               JStr(""))
             status_val == Or(Get(attrs, "status"), JStr(""))
             found == Or(Or(Get(nested_attrs, "message"), Get(attrs, "message")), JStr(""))
             message_val == IF IsDict(found) \/ IsList(found) THEN JStr(PyStr(found))
                            ELSE found
         IN
    IF Or(message_val, JStr("")).t # "str" THEN RowRaise("TypeError")
    ELSE add_row(timestamp, service_val, status_val,
                 Slice400(Or(message_val, JStr("")).s))

\* logs.py 79-90: the rows of the items, or the first exception
RECURSIVE log_rows(_)
log_rows(items) ==
    IF items = <<>> THEN [ok |-> TRUE, exc |-> "", val |-> <<>>]
    ELSE LET row == log_row(Head(items)) IN
         IF ~row.ok THEN row
         ELSE LET rest == log_rows(Tail(items)) IN
              IF ~rest.ok THEN rest
              ELSE [ok |-> TRUE, exc |-> "", val |-> <<row.val>> \o rest.val]

\* logs.py 66-91: what the handler does with the answer
render_logs(data, debug) ==
    LET d == Or(data, EmptyDict) IN
    IF debug THEN [ok |-> TRUE, exc |-> "", table |-> FALSE, val |-> <<>>]
    ELSE IF ~IsDict(d) THEN [ok |-> FALSE, exc |-> "AttributeError", table |-> FALSE, val |-> <<>>]
    ELSE LET items == Or(Get(d, "data"), EmptyList) IN
         IF items.t \in {"num"}
             THEN [ok |-> FALSE, exc |-> "TypeError", table |-> FALSE, val |-> <<>>]
         ELSE IF items.t \in {"str", "dict"}
             THEN [ok |-> FALSE, exc |-> "AttributeError", table |-> FALSE, val |-> <<>>]
         ELSE LET rows == log_rows(items.v) IN
              [ok |-> rows.ok, exc |-> rows.exc, table |-> rows.ok, val |-> rows.val]

(***************************************************************************)
(* Command lines and answers of logs query                                 *)
(***************************************************************************)
LogsArgvs ==
    [from : { <<"-", "1", "h">>, <<"n", "o", "w">> },
     to : { <<"n", "o", "w">>, <<"-", "1", "h">> },
     service : {NoneStr, Str(<<"checkout">>)},
     query : {NoneStr, Str(<<"@http.status_code:500">>)},
     debug : BOOLEAN]

NestedVals ==
    { Absent,
      MkDict(<<KV("service", JStr("checkout"))>>),
      MkDict(<<KV("service", JStr("checkout")), KV("message", JStr("nested boom"))>>),
      MkDict(<<KV("message", JNum(42))>>),
      MkDict(<<KV("message", MkDict(<<KV("text", JStr("boom"))>>))>>) }

TopMessages == {Absent, JStr("boom"), JStr(LongMessage)}

LogItems ==
    { MkDict(<<KV("attributes",
                  MkDict(<<KV("timestamp", JStr("2024-01-01T00:00:00Z")),
                           KV("attributes", n),
                           KV("service", JStr("web")),
                           KV("status", JStr("error")),
                           KV("message", m)>>))>>) :
          n \in NestedVals, m \in TopMessages }
    \cup { EmptyDict, JStr("item") }

\* The longest data list of an answer.
MaxLogItems == 2

LogItemLists ==
    UNION { [1..n -> LogItems] : n \in 0..MaxLogItems }

LogsAnswers ==
    { JNull, EmptyList, MkDict(<<KV("data", JNull)>>), MkDict(<<KV("data", JNum(1))>>) }
    \cup { MkDict(<<KV("data", JList(items))>>) : items \in LogItemLists }

LogsInit ==
    /\ pc = "start"
    /\ argv \in LogsArgvs
    /\ requests = <<>>
    /\ outcome = Running
    /\ resp = Absent
    /\ locals = [table |-> FALSE, rows |-> <<>>]
    /\ args = Idle /\ returned = Idle
    /\ expr = Idle /\ reference = Idle /\ lib = Idle /\ result = Idle
    /\ parts = Idle /\ extracted = Idle /\ computed = Idle

LogsUnchanged == <<argv, args, returned, expr, reference, lib, result, parts, extracted, computed>>

\* logs.py 51-66: the client, the range, the request.
LogsQueryStart ==
    /\ pc = "start"
    /\ \E env \in Envs :
           LET run == query_logs(argv, env) IN
           /\ requests' = [i \in 1..Len(run.requests) |->
                              LogsRequest(run.requests[i].from, run.requests[i].to,
                                          query_logs_query(argv.service, argv.query))]
           /\ IF run.requests = <<>>
              THEN pc' = "exited" /\ outcome' = [exit |-> run.outcome.exit, error |-> run.outcome.error]
              ELSE pc' = "posted" /\ UNCHANGED outcome
    /\ UNCHANGED <<resp, locals, LogsUnchanged>>

\* logs.py 66-93: the answer, the table, the exit.
LogsQueryAnswered ==
    /\ pc = "posted"
    /\ \E failed \in BOOLEAN, data \in LogsAnswers :
           IF failed
           THEN /\ outcome' = [exit |-> 1, error |-> "ApiError"]
                /\ UNCHANGED <<resp, locals>>
           ELSE LET shown == render_logs(data, argv.debug) IN
                /\ resp' = data
                /\ locals' = [table |-> shown.table, rows |-> shown.val]
                /\ outcome' = IF shown.ok THEN [exit |-> 0, error |-> ""]
                              ELSE [exit |-> 1, error |-> shown.exc]
    /\ pc' = "exited"
    /\ UNCHANGED <<requests, LogsUnchanged>>

LogsNext ==
    \/ LogsQueryStart
    \/ LogsQueryAnswered

SpecLogs == LogsInit /\ [][LogsNext]_vars

\* C24: logs query --from -1h --to now --service checkout without --query
\* resolves a range with from <= to and sends the filter query
\* 'service:checkout *'.
C24_ScenarioQuery ==
    (/\ requests # <<>>
     /\ argv.from = <<"-", "1", "h">> /\ argv.to = <<"n", "o", "w">>
     /\ argv.service = Str(<<"checkout">>) /\ argv.query = NoneStr)
        => /\ requests[1].from <= requests[1].to
           /\ requests[1].query = <<"service:", "checkout", Blank>> \o Star

\* The data list of the answer the run received.
AnsweredItems == Get(resp, "data").v

\* What the claim names as the service, status and message of an item.
NestedOf(item) == Get(Get(item, "attributes"), "attributes")

ServiceOf(item) ==
    Or(Get(NestedOf(item), "service"), Get(Get(item, "attributes"), "service"))

StatusOf(item) == Get(Get(item, "attributes"), "status")

MessageOf(item) ==
    Or(Get(NestedOf(item), "message"), Get(Get(item, "attributes"), "message"))

\* The text of a value, nothing for a missing or empty one.
TextOf(x) == PyStr(Or(x, JStr("")))

ScenarioItem ==
    MkDict(<<KV("attributes",
                MkDict(<<KV("timestamp", JStr("2024-01-01T00:00:00Z")),
                         KV("attributes", MkDict(<<KV("service", JStr("checkout"))>>)),
                         KV("service", JStr("web")),
                         KV("status", JStr("error")),
                         KV("message", JStr("boom"))>>))>>)

\* C25: logs query renders one row per item of the answer's data list, with
\* the service from attributes.attributes.service (else attributes.service),
\* the status from attributes.status and the message from
\* attributes.attributes.message (else attributes.message); the item with
\* nested service 'checkout', status 'error' and message 'boom' gives the row
\* (checkout, error, boom).
C25_OneRowPerItem ==
    (/\ pc = "exited"
     /\ ~argv.debug
     /\ IsDict(resp) /\ IsList(Get(resp, "data")))
        => /\ locals.table
           /\ Len(locals.rows) = Len(AnsweredItems)
           /\ \A i \in 1..Len(locals.rows) :
                  /\ locals.rows[i][2] = TextOf(ServiceOf(AnsweredItems[i]))
                  /\ locals.rows[i][3] = TextOf(StatusOf(AnsweredItems[i]))
                  /\ MessageOf(AnsweredItems[i]).t \in {"str", "null"}
                         => locals.rows[i][4] = Slice400(TextOf(MessageOf(AnsweredItems[i])))
                  /\ AnsweredItems[i] = ScenarioItem
                         => locals.rows[i] = <<"2024-01-01T00:00:00Z", "checkout", "error", "boom">>

\* The rows are as the claim says whenever the table is printed.
RowsAsClaimedWhenPrinted ==
    (pc = "exited" /\ locals.table)
        => /\ Len(locals.rows) = Len(AnsweredItems)
           /\ \A i \in 1..Len(locals.rows) :
                  /\ locals.rows[i][2] = TextOf(ServiceOf(AnsweredItems[i]))
                  /\ locals.rows[i][3] = TextOf(StatusOf(AnsweredItems[i]))
                  /\ MessageOf(AnsweredItems[i]).t \in {"str", "null"}
                         => locals.rows[i][4] = Slice400(TextOf(MessageOf(AnsweredItems[i])))

\* The scenario of the claim: its item alone, rendered as the claim says.
ScenarioShown ==
    /\ pc = "exited"
    /\ locals.table
    /\ AnsweredItems = <<ScenarioItem>>
    /\ locals.rows = << <<"2024-01-01T00:00:00Z", "checkout", "error", "boom">> >>

\* The range of the request is ordered.
RangeOrdered ==
    requests # <<>> => requests[1].from <= requests[1].to

(***************************************************************************)
(* services._wrap_definition(def_obj, as_list)                             *)
(***************************************************************************)
ServiceDefinition(def_obj) ==
    MkDict(<<KV("type", JStr("service_definition")), KV("attributes", def_obj)>>)

\* A variant that wraps whatever it is given.
_wrap_definition_AlwaysWraps(def_obj, as_list) ==
    IF as_list THEN MkDict(<<KV("data", JList(<<ServiceDefinition(def_obj)>>))>>)
    ELSE MkDict(<<KV("data", ServiceDefinition(def_obj))>>)

_wrap_definition(def_obj, as_list) ==
    IF IsDict(def_obj) /\ HasKey(def_obj, "data") THEN def_obj
    ELSE IF as_list THEN MkDict(<<KV("data", JList(<<ServiceDefinition(def_obj)>>))>>)
    ELSE MkDict(<<KV("data", ServiceDefinition(def_obj))>>)

\* What a definition file may hold.
DefinitionData ==
    { Absent, JNull, EmptyList,
      JList(<<ServiceDefinition(MkDict(<<KV("dd-service", JStr("web"))>>))>>),
      ServiceDefinition(MkDict(<<KV("dd-service", JStr("web"))>>)) }

Definitions ==
    { MkDict(<<KV("dd-service", s), KV("team", team), KV("data", d)>>) :
          s \in {JStr("web"), JStr("checkout")}, team \in {Absent, JStr("core")},
          d \in DefinitionData }
    \cup { EmptyDict, EmptyList, JStr("data") }

WrapInit ==
    /\ pc = "start"
    /\ args \in [def_obj : Definitions, as_list : BOOLEAN]
    /\ returned = Absent
    /\ locals = [as_list |-> FALSE, rewrapped |-> Absent]
    /\ expr = Idle /\ reference = Idle /\ lib = Idle /\ result = Idle
    /\ resp = Idle /\ parts = Idle /\ extracted = Idle /\ computed = Idle
    /\ argv = Idle /\ requests = Idle /\ outcome = Idle

WrapDefinition ==
    /\ pc = "start"
    /\ returned' = _wrap_definition(args.def_obj, args.as_list)
    /\ pc' = "wrapped"
    /\ UNCHANGED <<args, locals, timeVars, jsonVars, cmdVars>>

\* The result is wrapped once more.
WrapAgain ==
    /\ pc = "wrapped"
    /\ \E as_list \in BOOLEAN :
           locals' = [as_list |-> as_list, rewrapped |-> _wrap_definition(returned, as_list)]
    /\ pc' = "done"
    /\ UNCHANGED <<args, returned, timeVars, jsonVars, cmdVars>>

WrapNext ==
    \/ WrapDefinition
    \/ WrapAgain

SpecWrap == WrapInit /\ [][WrapNext]_vars

HasData(def_obj) == IsDict(def_obj) /\ HasKey(def_obj, "data")

WrappedInList(def_obj) ==
    MkDict(<<KV("data", JList(<<ServiceDefinition(def_obj)>>))>>)

CountRaise(e) == [ok |-> FALSE, exc |-> e, val |-> <<>>]

CountReturn(x) == [ok |-> TRUE, exc |-> "", val |-> x]

\* A variant that reads the count from compute only.
bucket_count_ComputeOnly(ref) ==
    LET compute_obj == Or(Get(ref, "compute"), EmptyDict) IN
    IF IsDict(compute_obj) /\ HasKey(compute_obj, "c0")
    THEN CountReturn(Get(compute_obj, "c0"))
    ELSE CountReturn(JNum(0))

\* compute_obj = ref.get("compute") or {} ... count
bucket_count(ref) ==
    LET compute_obj == Or(Get(ref, "compute"), EmptyDict) IN
    IF IsDict(compute_obj) /\ HasKey(compute_obj, "c0")
    THEN CountReturn(Get(compute_obj, "c0"))
    ELSE LET computes == Or(Get(ref, "computes"), JList(<<EmptyDict>>)) IN
         IF computes.t = "num" THEN CountRaise("TypeError")
         ELSE IF computes.t = "dict" THEN CountRaise("KeyError")
         ELSE IF computes.t = "str" THEN CountRaise("AttributeError")
         ELSE LET first == Or(computes.v[1], EmptyDict) IN
              IF ~IsDict(first) THEN CountRaise("AttributeError")
              ELSE CountReturn(IF HasKey(first, "value") THEN Get(first, "value")
                               ELSE JNum(0))

\* The row of one bucket: the value of the facet and the count, through str().
bucket_row(b, facet) ==
    IF ~IsDict(b) THEN CountRaise("AttributeError")
    ELSE LET ref == Or(Get(b, "attributes"), b) IN
    IF ~IsDict(ref) THEN CountRaise("AttributeError")
    ELSE LET by == Or(Get(ref, "by"), EmptyDict) IN
    IF ~IsDict(by) THEN CountRaise("AttributeError")
    ELSE LET key == IF HasKey(by, facet) THEN Get(by, facet) ELSE JStr("")
             count == bucket_count(ref)
         IN  IF ~count.ok THEN count
             ELSE CountReturn(<<PyStr(key), PyStr(count.val)>>)

\* for b in buckets: ... table.add_row
RECURSIVE count_rows(_, _)
count_rows(buckets, facet) ==
    IF buckets = <<>> THEN CountReturn(<<>>)
    ELSE LET row == bucket_row(Head(buckets), facet) IN
         IF ~row.ok THEN row
         ELSE LET rest == count_rows(Tail(buckets), facet) IN
              IF ~rest.ok THEN rest ELSE CountReturn(<<row.val>> \o rest.val)

\* apm.py 388-403
errors_top_resources_table(buckets) == count_rows(buckets, "resource_name")

\* apm.py 459-473
errors_rate_table(buckets, group_by) == count_rows(buckets, group_by)

\* service.py 112-126
_render_top_errors_table(buckets) == count_rows(buckets, "resource_name")

(***************************************************************************)
(* Buckets of the count tables                                             *)
(***************************************************************************)
CountedBy ==
    { Absent,
      MkDict(<<KV("resource_name", JStr("GET /")), KV("env", JStr("prd"))>>) }

CountedCompute == { Absent, MkDict(<<KV("c0", JNum(7))>>), MkDict(<<KV("c1", JNum(3))>>) }

CountedComputes ==
    { Absent, JList(<<MkDict(<<KV("value", JNum(7))>>)>>), JList(<<EmptyDict>>),
      JList(<<JNum(5)>>) }

\* Further shapes of compute and computes, and buckets under "attributes".
CountedOdd ==
    LET by == MkDict(<<KV("resource_name", JStr("GET /")), KV("env", JStr("prd"))>>)
        Ref(c, cs) == MkDict(<<KV("by", by), KV("compute", c), KV("computes", cs)>>)
    IN  { Ref(EmptyDict, JList(<<MkDict(<<KV("value", JNum(7))>>)>>)),
          Ref(MkDict(<<KV("c0", JNull)>>), JList(<<MkDict(<<KV("value", JNum(7))>>)>>)),
          Ref(Absent, EmptyList),
          Ref(Absent, JList(<<JNull>>)),
          Ref(Absent, JList(<<MkDict(<<KV("value", JNum(9))>>),
                              MkDict(<<KV("value", JNum(7))>>)>>)),
          MkDict(<<KV("attributes", Ref(MkDict(<<KV("c0", JNum(7))>>), Absent))>>),
          MkDict(<<KV("attributes", Ref(Absent, JList(<<MkDict(<<KV("value", JNum(7))>>)>>)))>>),
          MkDict(<<KV("attributes", Ref(Absent, Absent))>>) }

CountedBuckets ==
    { MkDict(<<KV("by", by), KV("compute", c), KV("computes", cs)>>) :
          by \in CountedBy, c \in CountedCompute, cs \in CountedComputes }
    \cup CountedOdd

\* The longest list of buckets.
MaxBuckets == 2

CountsInit ==
    /\ pc = "start"
    /\ args \in [cmd : {"apm errors top-resources", "apm errors rate", "troubleshoot"},
                 group_by : {"resource_name"},
                 buckets : UNION { [1..n -> CountedBuckets] : n \in 0..MaxBuckets }]
           \cup [cmd : {"apm errors rate"}, group_by : {"env"},
                 buckets : UNION { [1..n -> CountedBuckets] : n \in 0..1 }]
    /\ returned = CountReturn(<<>>)
    /\ locals = Idle
    /\ expr = Idle /\ reference = Idle /\ lib = Idle /\ result = Idle
    /\ resp = Idle /\ parts = Idle /\ extracted = Idle /\ computed = Idle
    /\ argv = Idle /\ requests = Idle /\ outcome = Idle

CountsDone(table) ==
    /\ returned' = table
    /\ pc' = "done"
    /\ UNCHANGED <<args, locals, timeVars, jsonVars, cmdVars>>

ErrorsTopResourcesTable ==
    /\ pc = "start"
    /\ args.cmd = "apm errors top-resources"
    /\ CountsDone(errors_top_resources_table(args.buckets))

ErrorsRateTable ==
    /\ pc = "start"
    /\ args.cmd = "apm errors rate"
    /\ CountsDone(errors_rate_table(args.buckets, args.group_by))

TopErrorsTable ==
    /\ pc = "start"
    /\ args.cmd = "troubleshoot"
    /\ CountsDone(_render_top_errors_table(args.buckets))

CountsNext ==
    \/ ErrorsTopResourcesTable
    \/ ErrorsRateTable
    \/ TopErrorsTable

SpecCounts == CountsInit /\ [][CountsNext]_vars

\* The mapping that holds by, compute and computes of a bucket.
RefOf(b) == IF Truthy(Get(b, "attributes")) THEN Get(b, "attributes") ELSE b

\* The count the claim names: compute.c0, else the first computes value, else 0.
ClaimedCount(b) ==
    LET compute == Get(RefOf(b), "compute")
        computes == Get(RefOf(b), "computes")
    IN  IF IsDict(compute) /\ HasKey(compute, "c0") THEN Get(compute, "c0")
        ELSE IF IsList(computes) /\ computes.v # <<>> /\ IsDict(computes.v[1])
                /\ HasKey(computes.v[1], "value")
            THEN Get(computes.v[1], "value")
        ELSE JNum(0)

\* The same bucket in the two shapes: compute {c0: n} and computes [{value: n}].
SameInTwoShapes(b1, b2) ==
    /\ Get(RefOf(b1), "by") = Get(RefOf(b2), "by")
    /\ HasKey(Or(Get(RefOf(b1), "compute"), EmptyDict), "c0")
    /\ ~HasKey(RefOf(b1), "computes")
    /\ ~HasKey(RefOf(b2), "compute")
    /\ Len(Get(RefOf(b2), "computes").v) = 1
    /\ Get(RefOf(b2), "computes").v[1]
           = MkDict(<<KV("value", Get(Get(RefOf(b1), "compute"), "c0"))>>)

\* C27: in the three count tables the count of a bucket is compute.c0 when
\* compute has the key c0, otherwise the value of the first computes entry,
\* otherwise 0; a bucket given as compute {c0: n} and the same bucket given as
\* computes [{value: n}] give the same row; there is one row per bucket, in
\* the order of the response.
C27_CountFromEitherShape ==
    (pc = "done" /\ returned.ok) =>
        /\ Len(returned.val) = Len(args.buckets)
        /\ \A i \in 1..Len(args.buckets) :
               returned.val[i][2] = PyStr(ClaimedCount(args.buckets[i]))
        /\ \A i, j \in 1..Len(args.buckets) :
               SameInTwoShapes(args.buckets[i], args.buckets[j])
                   => returned.val[i] = returned.val[j]

C27_Witness ==
    /\ pc = "done" /\ returned.ok
    /\ args.cmd = "troubleshoot"
    /\ Len(args.buckets) = 2
    /\ SameInTwoShapes(args.buckets[1], args.buckets[2])
    /\ returned.val = << <<"GET /", "7">>, <<"GET /", "7">> >>

(***************************************************************************)
(* Where resolve_context takes the keys from                               *)
(***************************************************************************)
\* The variable is in the environment, whatever its value.
IsSet(x) == x # JNull

KeysFromEnvironment ==
    /\ returned.api_key = args.environ.DD_API_KEY
    /\ returned.app_key = args.environ.DD_APP_KEY

\* C28: when any of DD_SITE, DD_API_KEY, DD_APP_KEY is set in the environment,
\* the keys resolve_context returns are those of the environment, None for an
\* unset one, and never those of the YAML file, even when the site comes from
\* a YAML context.
C28_KeysOnlyFromEnv ==
    (/\ pc = "done" /\ returned.ok
     /\ \/ IsSet(args.environ.DD_SITE)
        \/ IsSet(args.environ.DD_API_KEY)
        \/ IsSet(args.environ.DD_APP_KEY))
        => KeysFromEnvironment

\* C28 (amended): the same when any of the three variables is set to a
\* non-empty value; a variable set to the empty string counts as unset.
C28_KeysOnlyFromNonEmptyEnv ==
    (/\ pc = "done" /\ returned.ok
     /\ \/ NonEmpty(args.environ.DD_SITE)
        \/ NonEmpty(args.environ.DD_API_KEY)
        \/ NonEmpty(args.environ.DD_APP_KEY))
        => KeysFromEnvironment

C28_Witness ==
    /\ pc = "done" /\ returned.ok
    /\ args.environ.DD_SITE = JNull
    /\ args.environ.DD_API_KEY = JStr("env-api")
    /\ args.environ.DD_APP_KEY = JNull
    /\ returned.site = JStr("datadoghq.com")
    /\ Get(SelectedContext, "app_key") = JStr("yaml-app")
    /\ returned.api_key = JStr("env-api")
    /\ returned.app_key = JNull

(***************************************************************************)
(* apm._render_spans_table(items)                                          *)
(***************************************************************************)
\* a or b or ... or ""
RECURSIVE FirstTruthy(_)
FirstTruthy(xs) ==
    IF xs = <<>> THEN JStr("")
    ELSE IF Truthy(Head(xs)) THEN Head(xs)
    ELSE FirstTruthy(Tail(xs))

\* _format_ts_parts(ts_raw)[1] for the timestamps of the model: a number of
\* nanoseconds below one second, an ISO instant, a string dateutil refuses.
format_time(ts_raw) ==
    IF ts_raw.t = "num" THEN "00:00:00"
    ELSE IF ts_raw = JStr("2024-01-01T12:30:00Z") THEN "12:30:00"
    ELSE IF ts_raw.t = "str" THEN ts_raw.s
    ELSE ""

\* f"{n / 1000:.3f}" of a whole number n >= 0
Thousandths(n) ==
    ToString(n \div 1000) \o "."
        \o (IF n % 1000 < 10 THEN "00" ELSE IF n % 1000 < 100 THEN "0" ELSE "")
        \o ToString(n % 1000)

\* apm.py 156-161: the duration cell.  float() raises on anything but a
\* number and the cell is then "0.000"; above 10,000,000 the number is taken
\* for nanoseconds, otherwise for milliseconds.
duration_cell(duration) ==
    IF duration.t # "num" THEN Thousandths(0)
    ELSE IF duration.n > NsAbove THEN Thousandths((duration.n + 500000) \div 1000000)
    ELSE Thousandths(duration.n)

\* str(error_msg)[:120] for the messages of the model, all shorter
error_cell(error_msg) == PyStr(error_msg)

\* apm.py 108-165: the processed row of one item, as
\* (time, env, service, resource, method, status, duration, error_message)
processed_row(item) ==
    LET attrs == Or(Get(Or(item, EmptyDict), "attributes"), EmptyDict)
        n == nested(item)
        ts_raw == FirstTruthy(<<Get(attrs, "timestamp"), Get(attrs, "start_timestamp"),
                                Get(attrs, "start")>>)
    IN  << JStr(format_time(ts_raw)),
           FirstTruthy(<<Get(n, "env"), Get(attrs, "env")>>),
           FirstTruthy(<<Get(n, "service"), Get(attrs, "service")>>),
           FirstTruthy(<<Get(n, "resource_name"), Get(n, "resource.name"),
                         Get(attrs, "resource_name"), Get(attrs, "resource"),
                         Get(n, "resource")>>),
           FirstTruthy(<<Get(n, "http.method"), Get(n, "method"),
                         Get(attrs, "operation_name")>>),
           FirstTruthy(<<Get(n, "http.status_code"), Get(n, "status_code"),
                         Get(attrs, "status"), Get(n, "status")>>),
           JStr(duration_cell(FirstTruthy(<<Get(attrs, "duration"), Get(n, "duration"),
                                            Get(n, "duration.ms")>>))),
           JStr(error_cell(FirstTruthy(<<Get(n, "error.message"), Get(n, "error.type"),
                                         Get(n, "error"), Get(n, "error.msg")>>))) >>

\* env_set, service_set: the values of the field that are not blank
FieldSet(processed_rows, field) ==
    { processed_rows[i][field] : i \in {j \in 1..Len(processed_rows) :
                                            Truthy(processed_rows[j][field])} }

\* any(r[field] for r in processed_rows)
AnyField(processed_rows, field) ==
    \E i \in 1..Len(processed_rows) : Truthy(processed_rows[i][field])

SpanFields ==
    <<"timestamp", "env", "service", "resource", "method", "status", "duration_s",
      "error_message">>

\* A variant that shows the env and service columns whenever a row has one.
column_included_WheneverPresent(processed_rows, field) ==
    field = 1 \/ AnyField(processed_rows, field)

\* apm.py 184-209: table.add_column, the condition under which a field gets
\* its column
column_included(processed_rows, field) ==
    IF field = 1 THEN TRUE
    ELSE IF field \in {2, 3}
         THEN Cardinality(FieldSet(processed_rows, field)) # 1
              /\ AnyField(processed_rows, field)
    ELSE AnyField(processed_rows, field)

\* apm.py 211-226: row.append, the condition under which a field gets its cell
cell_included(processed_rows, field) ==
    IF field = 1 THEN TRUE
    ELSE IF field \in {2, 3}
         THEN Cardinality(FieldSet(processed_rows, field)) # 1
              /\ AnyField(processed_rows, field)
    ELSE AnyField(processed_rows, field)

FieldNumbers == [f \in 1..Len(SpanFields) |-> f]

spans_columns(processed_rows) ==
    LET shown == SelectSeq(FieldNumbers, LAMBDA f : column_included(processed_rows, f))
    IN  [i \in 1..Len(shown) |-> SpanFields[shown[i]]]

row_cells(r, processed_rows) ==
    LET shown == SelectSeq(FieldNumbers, LAMBDA f : cell_included(processed_rows, f))
    IN  [i \in 1..Len(shown) |-> r[shown[i]]]

SpansRaise(e) == [ok |-> FALSE, exc |-> e, processed_rows |-> <<>>, columns |-> <<>>,
                  rows |-> <<>>]

\* set.add raises on a value that cannot be hashed.
Unhashable(x) == Truthy(x) /\ (IsDict(x) \/ IsList(x))

_render_spans_table(items) ==
    IF \E i \in 1..Len(items) : ~IsDict(Or(items[i], EmptyDict))
        THEN SpansRaise("AttributeError")
    ELSE IF \E i \in 1..Len(items) :
                ~IsDict(Or(Get(Or(items[i], EmptyDict), "attributes"), EmptyDict))
        THEN SpansRaise("AttributeError")
    ELSE LET processed_rows == [i \in 1..Len(items) |-> processed_row(items[i])]
             rows == [i \in 1..Len(items) |-> row_cells(processed_rows[i], processed_rows)]
         IN
    IF \E i \in 1..Len(items) :
           Unhashable(processed_rows[i][2]) \/ Unhashable(processed_rows[i][3])
        THEN SpansRaise("TypeError")
    ELSE IF \E i \in 1..Len(rows) : \E c \in 1..Len(rows[i]) : rows[i][c].t # "str"
        THEN SpansRaise("NotRenderableError")
    ELSE [ok |-> TRUE, exc |-> "", processed_rows |-> processed_rows,
          columns |-> spans_columns(processed_rows), rows |-> rows]

(***************************************************************************)
(* Span items                                                              *)
(***************************************************************************)
\* What an item says beyond env and service.
Measured ==
    <<KV("timestamp", JStr("2024-01-01T12:30:00Z")), KV("resource_name", JStr("GET /")),
      KV("status", JStr("ok")), KV("duration", JNum(1500))>>

InNanoseconds ==
    <<KV("start", JNum(5)), KV("operation_name", JStr("http.request")),
      KV("duration", JNum(15000000))>>

NumericStatus == <<KV("status", JNum(500))>>

Failing == <<KV("custom", MkDict(<<KV("error.message", JStr("boom"))>>))>>

SpanItem(env, service, profile) ==
    MkDict(<<KV("attributes",
                MkDict(<<KV("attributes", MkDict(<<KV("env", env)>>)), KV("service", service)>>
                       \o profile))>>)

SpanItems ==
    { SpanItem(e, JStr("web"), profile) :
          e \in {Absent, JStr("prd"), JStr("dev")}, profile \in {<<>>, Measured, Failing} }
    \cup { SpanItem(JStr("prd"), s, profile) :
               s \in {Absent, JStr("api")}, profile \in {<<>>, InNanoseconds} }
    \cup { SpanItem(JStr("prd"), JStr("web"), NumericStatus), JStr("span") }

\* The longest list of items.
MaxSpans == 2

SpansTableInit ==
    /\ pc = "start"
    /\ args \in UNION { [1..n -> SpanItems] : n \in 0..MaxSpans }
    /\ returned = SpansRaise("")
    /\ locals = Idle
    /\ expr = Idle /\ reference = Idle /\ lib = Idle /\ result = Idle
    /\ resp = Idle /\ parts = Idle /\ extracted = Idle /\ computed = Idle
    /\ argv = Idle /\ requests = Idle /\ outcome = Idle

RenderSpansTable ==
    /\ pc = "start"
    /\ returned' = _render_spans_table(args)
    /\ pc' = "done"
    /\ UNCHANGED <<args, locals, timeVars, jsonVars, cmdVars>>

SpansTableNext == RenderSpansTable

SpecSpansTable == SpansTableInit /\ [][SpansTableNext]_vars

\* The field is not blank in some row of the table.
NonBlankSomewhere(field) ==
    \E i \in 1..Len(returned.processed_rows) : returned.processed_rows[i][field] # JStr("")

DistinctValues(field) ==
    { returned.processed_rows[i][field] : i \in 1..Len(returned.processed_rows) }
        \ {JStr("")}

HasColumn(name) == \E c \in 1..Len(returned.columns) : returned.columns[c] = name

ColumnOf(name) == CHOOSE c \in 1..Len(returned.columns) : returned.columns[c] = name

\* C30: every row _render_spans_table adds has as many cells as the table has
\* columns; the env and service columns are there, and filled with the row's
\* value, only when the field is non-blank in some row and does not have
\* exactly one distinct value; resource, method, status, duration and
\* error_message are there only when non-blank in some row.
C30_CellsMatchColumns ==
    (pc = "done" /\ returned.ok) =>
        /\ Len(returned.rows) = Len(args)
        /\ \A i \in 1..Len(returned.rows) :
               Len(returned.rows[i]) = Len(returned.columns)
        /\ \A f \in {2, 3} :
               HasColumn(SpanFields[f]) =>
                   /\ NonBlankSomewhere(f)
                   /\ Cardinality(DistinctValues(f)) # 1
                   /\ \A i \in 1..Len(returned.rows) :
                          returned.rows[i][ColumnOf(SpanFields[f])]
                              = returned.processed_rows[i][f]
        /\ \A f \in 4..Len(SpanFields) :
               HasColumn(SpanFields[f]) => NonBlankSomewhere(f)

C30_Witness ==
    /\ pc = "done" /\ returned.ok
    /\ Len(args) = 2
    /\ returned.columns = <<"timestamp", "env", "resource", "status", "duration_s">>
    /\ returned.rows[1][2] = JStr("prd")
    /\ returned.rows[2][2] = JStr("dev")

====
